---------------------------- MODULE Spec2Model ----------------------------
(***************************************************************************)
(* Wardrobe Studio: the local persistence store (IndexedDB object stores   *)
(* plus localStorage settings) and the application handlers that mutate    *)
(* it.  Every handler is an async function: it runs from one `await` of a  *)
(* storage call to the next, and each storage call is one IndexedDB        *)
(* transaction.  A handler in flight is a task record holding its local    *)
(* variables and the storage call it is waiting for.                       *)
(*                                                                         *)
(* Numbers that serve as keys are pairs <<n, f>>: n is the integer part    *)
(* and f tells the fraction apart (0: the number is the integer n).        *)
(* Date.now() + Math.random() is <<clock, 1>>, and adding 0.1 to it gives  *)
(* <<clock, 2>>.  An autoIncrement key is always an integer <<k, 0>>.      *)
(***************************************************************************)
EXTENDS Integers, Sequences, FiniteSets, TLC

VARIABLES
    items,           \* object store 'items'          (keyPath id, autoIncrement)
    images,          \* object store 'images'         (keyPath id)
    trash,           \* object store 'trash'          (keyPath id)
    customSections,  \* object store 'customSections' (keyPath id, autoIncrement)
    shoppingList,    \* object store 'shoppingList'   (keyPath id, autoIncrement)
    weeklyPlan,      \* object store 'weeklyPlan'     (keyPath day)
    savedOutfits,    \* object store 'savedOutfits'   (keyPath id, autoIncrement)
    keygen,          \* the key generator of each autoIncrement store
    localStorage,    \* key -> stored text
    backupFile,      \* the text of the backup file downloaded last, or Null
    worker,          \* the service worker: its cache and the answer it gave last
    clock,           \* Date.now(), advanced by every reading that makes a key
    tasks,           \* slot -> the handler in flight there, or Idle
    app,             \* the App object's fields
    lastResult       \* how the handler that finished last ended

stores == <<items, images, trash, customSections, shoppingList, weeklyPlan, savedOutfits>>
vars == <<items, images, trash, customSections, shoppingList, weeklyPlan,
          savedOutfits, keygen, localStorage, backupFile, worker, clock, tasks, app,
          lastResult>>

---------------------------------------------------------------------------
(* Bounds of the model.                                                    *)

MaxStamps == 2      \* how many time-derived keys (Date.now()) are ever made
MaxSections == 1    \* how many custom sections are ever created
MaxShopping == 1    \* how many shopping entries are ever created
MaxTasks == 2       \* how many handlers may be in flight at once
MaxOutfits == 2     \* how many outfits are ever saved from the builder

Slots == 1..MaxTasks
SerialSlots == {1}

---------------------------------------------------------------------------
(* Numbers used as keys.                                                   *)

Num(n) == <<n, 0>>
Plus01(x) == <<x[1], x[2] + 1>>
ParseInt(x) == <<x[1], 0>>
IsInteger(x) == x[2] = 0

\* Date.now() + Math.random() at the current clock reading
StampRandom == <<clock, 1>>
\* Date.now()
StampNow == <<clock, 0>>
\* new Date().toISOString(): the model does not tell two dates apart
IsoNow == "iso-date"

---------------------------------------------------------------------------
(* IndexedDB object stores: a store is a function from keys to records.    *)

EmptyStore == <<>>

Has(store, k) == k \in DOMAIN store

\* IDBObjectStore.put with an explicit key (or in-line key already present)
Put(store, k, v) == [i \in DOMAIN store \cup {k} |-> IF i = k THEN v ELSE store[i]]

\* IDBObjectStore.delete
Delete(store, k) == [i \in DOMAIN store \ {k} |-> store[i]]

\* IDBObjectStore.getAll
GetAll(store) == {store[k] : k \in DOMAIN store}

\* The record a put stores for an object with no id: the generated key is
\* written into the stored copy at the key path.
WithId(obj, k) == [f \in DOMAIN obj \cup {"id"} |-> IF f = "id" THEN k ELSE obj[f]]

\* JavaScript's `delete obj.f`
Without(obj, f) == [g \in DOMAIN obj \ {f} |-> obj[g]]

\* JavaScript's `obj.f = v`
With(obj, f, v) == [g \in DOMAIN obj \cup {f} |-> IF g = f THEN v ELSE obj[g]]

\* A put with an explicit numeric key k raises the generator past floor(k).
Bump(gen, k) == IF k[1] + 1 > gen THEN k[1] + 1 ELSE gen

\* The same for a store whose keys the model keeps as plain integers.
BumpInt(gen, k) == IF k + 1 > gen THEN k + 1 ELSE gen

---------------------------------------------------------------------------
(* Categories.                                                             *)

(* A category is a tuple: <<"tops">> is the string 'tops' and               *)
(* <<"custom", 3>> is the string 'custom-3'.                               *)

FixedCategories == {<<"tops">>, <<"bottoms">>, <<"outerwear">>, <<"other">>}

\* `custom-${section.id}`
CustomCategory(sectionId) == <<"custom", sectionId>>

\* The <option>s of the move and upload selects, and the section headers
\* that accept a drop: the four fixed ones and one per existing section.
SelectableCategories ==
    FixedCategories \cup {CustomCategory(s) : s \in DOMAIN customSections}

---------------------------------------------------------------------------
(* Tasks.                                                                  *)

Idle == [op |-> "idle"]

IsIdle(t) == tasks[t] = Idle

\* What the handler in slot t found in the stores it may change in several
\* calls, when it started: kept with the handler, for the properties that
\* compare a handler's outcome with the state it started from
Before(t) ==
    IF IsIdle(t) \/ "before" \notin DOMAIN tasks[t]
    THEN [items |-> items, trash |-> trash, images |-> images,
          customSections |-> customSections]
    ELSE tasks[t].before

\* The handler in slot t starts, or moves on to its next await.
Becomes(t, task) == tasks' = [tasks EXCEPT ![t] = With(task, "before", Before(t))]

\* The handler in slot t returns.
Returns(t, how) ==
    /\ tasks' = [tasks EXCEPT ![t] = Idle]
    /\ lastResult' = how

Running(t, op, pc) == tasks[t].op = op /\ tasks[t].pc = pc

\* JavaScript's undefined (a lookup that found nothing) and null
Undefined == [undefined |-> TRUE]
Null == <<>>

\* no service worker is installed
NoWorker == [active |-> FALSE, cache |-> <<>>, respondedWith |-> <<>>]

---------------------------------------------------------------------------
(* The state after the database has been created and before any handler    *)
(* has run: every store empty, nothing in localStorage.                    *)

Init ==
    /\ items = EmptyStore
    /\ images = EmptyStore
    /\ trash = EmptyStore
    /\ customSections = EmptyStore
    /\ shoppingList = EmptyStore
    /\ weeklyPlan = EmptyStore
    /\ savedOutfits = EmptyStore
    /\ keygen = [items |-> 1, customSections |-> 1, shoppingList |-> 1, savedOutfits |-> 1]
    /\ localStorage = EmptyStore
    /\ backupFile = Null
    /\ worker = NoWorker
    /\ clock = 1
    /\ tasks = [t \in Slots |-> Idle]
    /\ app = [builderItems |-> <<>>, currentWeeklyDay |-> "null",
              currentMoveItemId |-> <<>>, dataTheme |-> FALSE, welcomeModal |-> FALSE,
              weatherLog |-> "none", currentWeather |-> <<>>]
    /\ lastResult = "none"

---------------------------------------------------------------------------
(* Values.                                                                 *)

\* IDBObjectStore.get
Get(store, k) == IF Has(store, k) THEN store[k] ELSE Undefined

\* JavaScript's truthiness of obj.f for a field holding a key or null
Truthy(obj, f) == f \in DOMAIN obj /\ obj[f] # Null

\* The image data of the file picked at clock reading n (a base64 data
\* URL): every file the model picks is a different picture
Blob(n) == <<"jpeg", n>>

\* The categories the model draws for an upload, a move or a drop
DrawnCategories ==
    {<<"tops">>, <<"other">>} \cup {CustomCategory(s) : s \in DOMAIN customSections}

\* The item ids the model hands to a handler: the first keys of the items
\* store, present or not, and the ids on display
DrawnItemIds == {Num(n) : n \in 1..MaxStamps} \cup DOMAIN items \cup DOMAIN trash

---------------------------------------------------------------------------
(* Settings.  Storage.setSetting writes a text to localStorage under       *)
(* 'wardrobe_' + key, Storage.getSetting reads it back through JSON.parse. *)
(* A text is kept as what JSON.parse makes of it: <<"json", v>> is the     *)
(* JSON text of the value v, <<"raw", s>> a text s that is no JSON.        *)

\* JavaScript values: null is Null; strings, booleans and objects are tagged
Str(s) == <<"string", s>>
Bool(b) == <<"boolean", b>>
Obj(r) == <<"object", r>>

\* JSON.stringify(v)
JsonText(v) == <<"json", v>>

RawText(s) == <<"raw", s>>

\* the text made of the characters of the string s: it is JSON when s
\* spells a JSON literal
StringText(s) ==
    CASE s = "true" -> JsonText(Bool(TRUE))
      [] s = "false" -> JsonText(Bool(FALSE))
      [] s = "null" -> JsonText(Null)
      [] OTHER -> RawText(s)

\* typeof v === 'object'
IsObject(v) == v = Null \/ v[1] = "object"

\* JavaScript's truthiness of a value
JsTruthy(v) == v # Null /\ v # Bool(FALSE) /\ v # Str("")

SettingKey ==
    [userName |-> "wardrobe_userName", theme |-> "wardrobe_theme",
     location |-> "wardrobe_location", tempUnit |-> "wardrobe_tempUnit",
     weatherCache |-> "wardrobe_weatherCache"]

\* Storage.getSetting
GetSetting(ls, key, defaultValue) ==
    IF ~Has(ls, SettingKey[key]) THEN defaultValue
    ELSE LET value == ls[SettingKey[key]]
         IN  IF value[1] = "json" THEN value[2] ELSE Str(value[2])

\* Storage.setSetting
SetSetting(ls, key, value) ==
    Put(ls, SettingKey[key],
        IF IsObject(value) THEN JsonText(value)
        ELSE IF value[1] = "string" THEN StringText(value[2])
        ELSE JsonText(value))

\* Storage.isFirstRun
IsFirstRun(ls) ==
    ~Has(ls, "wardrobe_migrated") \/ ls["wardrobe_migrated"] = RawText("")

\* setMigrated that records the date only
SetMigrated_DateOnly(ls) == Put(ls, "wardrobe_migratedDate", RawText(IsoNow))

\* Storage.setMigrated
SetMigrated(ls) ==
    Put(Put(ls, "wardrobe_migrated", StringText("true")),
        "wardrobe_migratedDate", RawText(IsoNow))

\* App.loadTheme: whether the page gets the attribute data-theme
LoadTheme(ls) == GetSetting(ls, "theme", Str("light")) = Str("dark")

\* App.toggleTheme: the page's attribute decides, the setting follows
ToggleTheme ==
    /\ app' = [app EXCEPT !.dataTheme = ~@]
    /\ localStorage' = SetSetting(localStorage, "theme",
                                  IF app.dataTheme THEN Str("light") ELSE Str("dark"))
    /\ UNCHANGED <<stores, keygen, backupFile, worker, clock, tasks, lastResult>>

---------------------------------------------------------------------------
(* App.processUpload: for each previewed image, save the image under a key *)
(* made from the time, then save an item that references it.               *)

NewItem(imageId, category) ==
    [imageId |-> imageId, category |-> category, favorite |-> FALSE,
     laundry |-> FALSE, dateAdded |-> IsoNow]

\* Storage.saveImage
SaveImage(id, data) == images' = Put(images, id, [id |-> id, data |-> data])

\* Storage.saveItem of an object without an id: the key generator makes it
SaveNewItem(obj) ==
    /\ items' = Put(items, Num(keygen.items), WithId(obj, Num(keygen.items)))
    /\ keygen' = [keygen EXCEPT !.items = @ + 1]

\* Storage.saveItem of a record that carries its id
SaveItem(item) == items' = Put(items, item.id, item)

ProcessUploadInvoke(t) ==
    /\ IsIdle(t)
    /\ clock <= MaxStamps
    /\ \E category \in DrawnCategories, n \in 1..(MaxStamps + 1 - clock) :
         LET files == [i \in 1..n |-> Blob(clock + i - 1)]
         IN  /\ SaveImage(StampRandom, files[1])
             /\ clock' = clock + 1
             /\ Becomes(t, [op |-> "processUpload", pc |-> "saveImage",
                            category |-> category, imageId |-> StampRandom,
                            rest |-> Tail(files)])
    /\ UNCHANGED <<items, trash, customSections, shoppingList, weeklyPlan,
                   savedOutfits, keygen, localStorage, backupFile, worker, app, lastResult>>

ProcessUploadSaveItem(t) ==
    /\ Running(t, "processUpload", "saveImage")
    /\ SaveNewItem(NewItem(tasks[t].imageId, tasks[t].category))
    /\ Becomes(t, [tasks[t] EXCEPT !.pc = "saveItem"])
    /\ UNCHANGED <<images, trash, customSections, shoppingList, weeklyPlan,
                   savedOutfits, localStorage, backupFile, worker, clock, app, lastResult>>

ProcessUploadNext(t) ==
    /\ Running(t, "processUpload", "saveItem")
    /\ IF tasks[t].rest = <<>>
       THEN /\ Returns(t, "ok")
            /\ UNCHANGED <<images, clock>>
       ELSE /\ SaveImage(StampRandom, Head(tasks[t].rest))
            /\ clock' = clock + 1
            /\ Becomes(t, [tasks[t] EXCEPT !.pc = "saveImage", !.imageId = StampRandom,
                                           !.rest = Tail(@)])
            /\ UNCHANGED lastResult
    /\ UNCHANGED <<items, trash, customSections, shoppingList, weeklyPlan,
                   savedOutfits, keygen, localStorage, backupFile, worker, app>>

ProcessUpload(t) ==
    \/ ProcessUploadInvoke(t)
    \/ ProcessUploadSaveItem(t)
    \/ ProcessUploadNext(t)

---------------------------------------------------------------------------
(* App.toggleFavorite: read the item, flip the flag, write it back.        *)

ToggleFavoriteInvoke(t, itemId) ==
    /\ IsIdle(t)
    /\ Becomes(t, [op |-> "toggleFavorite", pc |-> "getItem", item |-> Get(items, itemId)])
    /\ UNCHANGED <<stores, keygen, localStorage, backupFile, worker, clock, app, lastResult>>

ToggleFavoriteSave(t) ==
    /\ Running(t, "toggleFavorite", "getItem")
    /\ IF tasks[t].item = Undefined
       THEN UNCHANGED items
       ELSE SaveItem([tasks[t].item EXCEPT !.favorite = ~@])
    /\ Returns(t, "ok")
    /\ UNCHANGED <<images, trash, customSections, shoppingList, weeklyPlan,
                   savedOutfits, keygen, localStorage, backupFile, worker, clock, app>>

ToggleFavorite(t) ==
    \/ \E itemId \in DrawnItemIds : ToggleFavoriteInvoke(t, itemId)
    \/ ToggleFavoriteSave(t)

\* App.toggleLaundry: the same with the laundry flag
ToggleLaundryInvoke(t, itemId) ==
    /\ IsIdle(t)
    /\ Becomes(t, [op |-> "toggleLaundry", pc |-> "getItem", item |-> Get(items, itemId)])
    /\ UNCHANGED <<stores, keygen, localStorage, backupFile, worker, clock, app, lastResult>>

ToggleLaundrySave(t) ==
    /\ Running(t, "toggleLaundry", "getItem")
    /\ IF tasks[t].item = Undefined
       THEN UNCHANGED items
       ELSE SaveItem([tasks[t].item EXCEPT !.laundry = ~@])
    /\ Returns(t, "ok")
    /\ UNCHANGED <<images, trash, customSections, shoppingList, weeklyPlan,
                   savedOutfits, keygen, localStorage, backupFile, worker, clock, app>>

ToggleLaundry(t) ==
    \/ \E itemId \in DrawnItemIds : ToggleLaundryInvoke(t, itemId)
    \/ ToggleLaundrySave(t)

---------------------------------------------------------------------------
(* App.deleteItem: read the item, mark it deleted, put it into trash, then *)
(* delete it from items.                                                   *)

\* item.deleted = true; item.deletedDate = ...; item.originalCategory = item.category
MarkDeleted(item) ==
    With(With(With(item, "deleted", TRUE), "deletedDate", IsoNow),
         "originalCategory", item.category)

\* Storage.saveToTrash
SaveToTrash(item) == trash' = Put(trash, item.id, item)

\* Storage.deleteItem
StorageDeleteItem(id) == items' = Delete(items, id)

DeleteItemInvoke(t, itemId) ==
    /\ IsIdle(t)
    /\ Becomes(t, [op |-> "deleteItem", pc |-> "getItem", itemId |-> itemId,
                   item |-> Get(items, itemId)])
    /\ UNCHANGED <<stores, keygen, localStorage, backupFile, worker, clock, app, lastResult>>

DeleteItemSaveToTrash(t) ==
    /\ Running(t, "deleteItem", "getItem")
    /\ IF tasks[t].item = Undefined
       THEN /\ Returns(t, "ok")
            /\ UNCHANGED trash
       ELSE /\ SaveToTrash(MarkDeleted(tasks[t].item))
            /\ Becomes(t, [tasks[t] EXCEPT !.pc = "saveToTrash"])
            /\ UNCHANGED lastResult
    /\ UNCHANGED <<items, images, customSections, shoppingList, weeklyPlan,
                   savedOutfits, keygen, localStorage, backupFile, worker, clock, app>>

DeleteItemDelete(t) ==
    /\ Running(t, "deleteItem", "saveToTrash")
    /\ StorageDeleteItem(tasks[t].itemId)
    /\ Returns(t, "ok")
    /\ UNCHANGED <<images, trash, customSections, shoppingList, weeklyPlan,
                   savedOutfits, keygen, localStorage, backupFile, worker, clock, app>>

DeleteItem(t) ==
    \/ \E itemId \in DrawnItemIds : DeleteItemInvoke(t, itemId)
    \/ DeleteItemSaveToTrash(t)
    \/ DeleteItemDelete(t)

---------------------------------------------------------------------------
(* App.restoreItem: take the record out of trash (one transaction reads    *)
(* and deletes it), clear the trash marks, put it back into items.         *)

\* item.originalCategory || 'other'
OriginalOrOther(item) ==
    IF "originalCategory" \in DOMAIN item THEN item.originalCategory ELSE <<"other">>

\* Unmark with the recorded category read after it was deleted
Unmark_AlwaysOther(item) ==
    Without(Without(With(With(item, "deleted", FALSE), "category", <<"other">>),
                    "deletedDate"), "originalCategory")

\* deleted = false; category = originalCategory || 'other'; delete the two marks
Unmark(item) ==
    Without(Without(With(With(item, "deleted", FALSE), "category", OriginalOrOther(item)),
                    "deletedDate"), "originalCategory")

\* restoreFromTrash that reads and leaves the entry where it is
RestoreFromTrash_ReadOnly(id) == trash' = trash

\* Storage.restoreFromTrash: get and delete in one transaction on 'trash'
RestoreFromTrash(id) == trash' = Delete(trash, id)

RestoreItemInvoke(t, itemId) ==
    /\ IsIdle(t)
    /\ RestoreFromTrash(itemId)
    /\ Becomes(t, [op |-> "restoreItem", pc |-> "restoreFromTrash",
                   itemId |-> itemId, item |-> Get(trash, itemId)])
    /\ UNCHANGED <<items, images, customSections, shoppingList, weeklyPlan,
                   savedOutfits, keygen, localStorage, backupFile, worker, clock, app, lastResult>>

RestoreItemSave(t) ==
    /\ Running(t, "restoreItem", "restoreFromTrash")
    /\ IF tasks[t].item = Undefined
       THEN UNCHANGED items
       ELSE SaveItem(Unmark(tasks[t].item))
    /\ Returns(t, "ok")
    /\ UNCHANGED <<images, trash, customSections, shoppingList, weeklyPlan,
                   savedOutfits, keygen, localStorage, backupFile, worker, clock, app>>

RestoreItem(t) ==
    \/ \E itemId \in DrawnItemIds : RestoreItemInvoke(t, itemId)
    \/ RestoreItemSave(t)

---------------------------------------------------------------------------
(* Storage.emptyTrash: ONE transaction over 'trash' and 'images' reads all *)
(* trash entries, deletes the image of each entry that has one, and clears *)
(* trash.  IndexedDB commits the transaction as a whole; when a request    *)
(* fails the transaction aborts, what its earlier requests did is undone,  *)
(* and tx.onerror rejects the promise.                                     *)

\* IndexedDB's order of numeric keys
KeyLess(a, b) == a[1] < b[1] \/ (a[1] = b[1] /\ a[2] < b[2])

\* The trash entries whose image emptyTrash deletes: `if (item.imageId)`
WithImage(store) == {k \in DOMAIN store : Truthy(store[k], "imageId")}

\* EmptyTrashRequests with imageStore.delete(item.id) for item.imageId
EmptyTrashRequests_ByItemId(upTo, cleared) ==
    [images |-> [i \in DOMAIN images \ {trash[k].id : k \in upTo} |-> images[i]],
     trash  |-> IF cleared THEN EmptyStore ELSE trash]

\* What the transaction's requests have done when `upTo` entries' images are
\* deleted (getAll returns the entries in key order) and trash is cleared or not
EmptyTrashRequests(upTo, cleared) ==
    [images |-> [i \in DOMAIN images \ {trash[k].imageId : k \in upTo} |-> images[i]],
     trash  |-> IF cleared THEN EmptyStore ELSE trash]

\* TxOutcome with every request in a transaction of its own: nothing is
\* undone when a later request fails
TxOutcome_NoRollback(committed, work) == work

\* The store contents a transaction leaves: its requests' work when it
\* commits, the contents it started from when it aborts
TxOutcome(committed, work) ==
    IF committed THEN work ELSE [images |-> images, trash |-> trash]

\* tx.oncomplete = () => resolve()
EmptyTrashCommit(t) ==
    /\ IsIdle(t)
    /\ LET out == TxOutcome(TRUE, EmptyTrashRequests(WithImage(trash), TRUE))
       IN  /\ images' = out.images
           /\ trash' = out.trash
    /\ Returns(t, "ok")
    /\ UNCHANGED <<items, customSections, shoppingList, weeklyPlan, savedOutfits,
                   keygen, localStorage, backupFile, worker, clock, app>>

\* tx.onerror = () => reject(tx.error): the delete of entry `failed`'s image
\* fails (the images of the entries before it are deleted by then), or
\* trashStore.clear() fails (every image is deleted by then)
EmptyTrashAbort(t) ==
    /\ IsIdle(t)
    /\ \E failed \in WithImage(trash) \cup {Null} :
         LET before == IF failed = Null THEN WithImage(trash)
                       ELSE {k \in WithImage(trash) : KeyLess(k, failed)}
             out == TxOutcome(FALSE, EmptyTrashRequests(before, FALSE))
         IN  /\ images' = out.images
             /\ trash' = out.trash
    /\ Returns(t, "error")
    /\ UNCHANGED <<items, customSections, shoppingList, weeklyPlan, savedOutfits,
                   keygen, localStorage, backupFile, worker, clock, app>>

EmptyTrash(t) ==
    \/ EmptyTrashCommit(t)
    \/ EmptyTrashAbort(t)

---------------------------------------------------------------------------
(* Custom sections.                                                        *)

SectionNames == {"Work"}

\* App.createNewSection: Storage.saveCustomSection({name, items: []})
CreateNewSection(t) ==
    /\ IsIdle(t)
    /\ keygen.customSections <= MaxSections
    /\ \E name \in SectionNames :
         customSections' = Put(customSections, keygen.customSections,
                               [id |-> keygen.customSections, name |-> name, items |-> <<>>])
    /\ keygen' = [keygen EXCEPT !.customSections = @ + 1]
    /\ Returns(t, "ok")
    /\ UNCHANGED <<items, images, trash, shoppingList, weeklyPlan, savedOutfits,
                   localStorage, backupFile, worker, clock, app>>

\* The keys of a store in IndexedDB's order, as getAll returns its records
RECURSIVE SortedKeys(_)
SortedKeys(keys) ==
    IF keys = {} THEN <<>>
    ELSE LET least == CHOOSE k \in keys : \A other \in keys \ {k} : KeyLess(k, other)
         IN  <<least>> \o SortedKeys(keys \ {least})

\* SectionItems with the cascade left out: no item is moved to trash
SectionItems_None(all, sectionId) == <<>>

\* items.filter(i => i.category === `custom-${sectionId}`)
SectionItems(all, sectionId) ==
    SelectSeq([n \in 1..Len(SortedKeys(DOMAIN all)) |-> all[SortedKeys(DOMAIN all)[n]]],
              LAMBDA i : i.category = CustomCategory(sectionId))

\* item.deleted = true; item.originalCategory = item.category
MarkSectionDeleted(item) ==
    With(With(item, "deleted", TRUE), "originalCategory", item.category)

\* Storage.deleteCustomSection
DeleteCustomSection(id) == customSections' = Delete(customSections, id)

\* App.deleteSection: Storage.getAllItems()
DeleteSectionInvoke(t, sectionId) ==
    /\ IsIdle(t)
    /\ Becomes(t, [op |-> "deleteSection", pc |-> "deleteItem", sectionId |-> sectionId,
                   sectionItems |-> SectionItems(items, sectionId), i |-> 1])
    /\ UNCHANGED <<stores, keygen, localStorage, backupFile, worker, clock, app, lastResult>>

\* the loop's Storage.saveToTrash(item), or Storage.deleteCustomSection after it
DeleteSectionSaveToTrash(t) ==
    /\ Running(t, "deleteSection", "deleteItem")
    /\ IF tasks[t].i > Len(tasks[t].sectionItems)
       THEN /\ DeleteCustomSection(tasks[t].sectionId)
            /\ Returns(t, "ok")
            /\ UNCHANGED trash
       ELSE /\ SaveToTrash(MarkSectionDeleted(tasks[t].sectionItems[tasks[t].i]))
            /\ Becomes(t, [tasks[t] EXCEPT !.pc = "saveToTrash"])
            /\ UNCHANGED <<customSections, lastResult>>
    /\ UNCHANGED <<items, images, shoppingList, weeklyPlan, savedOutfits,
                   keygen, localStorage, backupFile, worker, clock, app>>

\* the loop's Storage.deleteItem(item.id)
DeleteSectionDeleteItem(t) ==
    /\ Running(t, "deleteSection", "saveToTrash")
    /\ StorageDeleteItem(tasks[t].sectionItems[tasks[t].i].id)
    /\ Becomes(t, [tasks[t] EXCEPT !.pc = "deleteItem", !.i = @ + 1])
    /\ UNCHANGED <<images, trash, customSections, shoppingList, weeklyPlan,
                   savedOutfits, keygen, localStorage, backupFile, worker, clock, app, lastResult>>

DeleteSection(t) ==
    \/ \E sectionId \in DOMAIN customSections : DeleteSectionInvoke(t, sectionId)
    \/ DeleteSectionSaveToTrash(t)
    \/ DeleteSectionDeleteItem(t)

---------------------------------------------------------------------------
(* Moving an item to another category.                                     *)

\* App.openMoveModal
OpenMoveModal(t) ==
    /\ IsIdle(t)
    /\ \E itemId \in DOMAIN items :
         /\ app.currentMoveItemId # itemId
         /\ app' = [app EXCEPT !.currentMoveItemId = itemId]
    /\ UNCHANGED <<stores, keygen, localStorage, backupFile, worker, clock, tasks, lastResult>>

\* App.moveItemToCategory: Storage.getItem(this.currentMoveItemId)
MoveItemInvoke(t) ==
    /\ IsIdle(t)
    /\ app.currentMoveItemId # Null
    /\ \E target \in DrawnCategories :
         Becomes(t, [op |-> "moveItemToCategory", pc |-> "getItem", target |-> target,
                     item |-> Get(items, app.currentMoveItemId)])
    /\ UNCHANGED <<stores, keygen, localStorage, backupFile, worker, clock, app, lastResult>>

\* item.category = targetCategory; Storage.saveItem(item); closeMoveModal()
MoveItemSave(t) ==
    /\ Running(t, "moveItemToCategory", "getItem")
    /\ IF tasks[t].item = Undefined
       THEN UNCHANGED <<items, app>>
       ELSE /\ SaveItem([tasks[t].item EXCEPT !.category = tasks[t].target])
            /\ app' = [app EXCEPT !.currentMoveItemId = Null]
    /\ Returns(t, "ok")
    /\ UNCHANGED <<images, trash, customSections, shoppingList, weeklyPlan,
                   savedOutfits, keygen, localStorage, backupFile, worker, clock>>

MoveItemToCategory(t) ==
    \/ OpenMoveModal(t)
    \/ MoveItemInvoke(t)
    \/ MoveItemSave(t)

---------------------------------------------------------------------------
(* DragDrop.restoreToCategory: a trashed item dropped on a section header. *)
(* The drop handler passes parseInt(dataset.id).                           *)

RestoreToCategoryInvoke(t, itemId) ==
    /\ IsIdle(t)
    /\ RestoreFromTrash(ParseInt(itemId))
    /\ \E target \in DrawnCategories :
         Becomes(t, [op |-> "restoreToCategory", pc |-> "restoreFromTrash",
                     itemId |-> ParseInt(itemId), target |-> target,
                     item |-> Get(trash, ParseInt(itemId))])
    /\ UNCHANGED <<items, images, customSections, shoppingList, weeklyPlan,
                   savedOutfits, keygen, localStorage, backupFile, worker, clock, app, lastResult>>

\* trashItem.category = targetCategory; trashItem.deleted = false; saveItem
RestoreToCategorySave(t) ==
    /\ Running(t, "restoreToCategory", "restoreFromTrash")
    /\ IF tasks[t].item = Undefined
       THEN UNCHANGED items
       ELSE SaveItem(With(With(tasks[t].item, "category", tasks[t].target),
                          "deleted", FALSE))
    /\ Returns(t, "ok")
    /\ UNCHANGED <<images, trash, customSections, shoppingList, weeklyPlan,
                   savedOutfits, keygen, localStorage, backupFile, worker, clock, app>>

RestoreToCategory(t) ==
    \/ \E itemId \in DOMAIN trash : RestoreToCategoryInvoke(t, itemId)
    \/ RestoreToCategorySave(t)

---------------------------------------------------------------------------
(* App.handleBuilderUpload: like processUpload, under category 'other',    *)
(* each file read before its image is saved.                               *)

HandleBuilderUploadInvoke(t) ==
    /\ IsIdle(t)
    /\ clock <= MaxStamps
    /\ \E n \in 1..(MaxStamps + 1 - clock) :
         Becomes(t, [op |-> "handleBuilderUpload", pc |-> "readFile",
                     files |-> [i \in 1..n |-> Blob(clock + i - 1)]])
    /\ UNCHANGED <<stores, keygen, localStorage, backupFile, worker, clock, app, lastResult>>

HandleBuilderUploadSaveImage(t) ==
    /\ Running(t, "handleBuilderUpload", "readFile")
    /\ SaveImage(StampRandom, Head(tasks[t].files))
    /\ clock' = clock + 1
    /\ Becomes(t, [op |-> "handleBuilderUpload", pc |-> "saveImage",
                   imageId |-> StampRandom, files |-> Tail(tasks[t].files)])
    /\ UNCHANGED <<items, trash, customSections, shoppingList, weeklyPlan,
                   savedOutfits, keygen, localStorage, backupFile, worker, app, lastResult>>

HandleBuilderUploadSaveItem(t) ==
    /\ Running(t, "handleBuilderUpload", "saveImage")
    /\ SaveNewItem(NewItem(tasks[t].imageId, <<"other">>))
    /\ IF tasks[t].files = <<>>
       THEN Returns(t, "ok")
       ELSE /\ Becomes(t, [op |-> "handleBuilderUpload", pc |-> "readFile",
                           files |-> tasks[t].files])
            /\ UNCHANGED lastResult
    /\ UNCHANGED <<images, trash, customSections, shoppingList, weeklyPlan,
                   savedOutfits, localStorage, backupFile, worker, clock, app>>

HandleBuilderUpload(t) ==
    \/ HandleBuilderUploadInvoke(t)
    \/ HandleBuilderUploadSaveImage(t)
    \/ HandleBuilderUploadSaveItem(t)

---------------------------------------------------------------------------
(* The shopping list.  App.addShoppingItem saves the previewed picture     *)
(* under Date.now() and then the entry; App.deleteShoppingItem deletes the *)
(* entry.                                                                  *)

ShoppingNames == {"Boots"}

ShoppingItem(name, imageId) ==
    [name |-> name, desc |-> "", price |-> "", imageId |-> imageId]

\* Storage.saveShoppingItem of an object without an id
SaveShoppingItem(obj) ==
    /\ shoppingList' = Put(shoppingList, keygen.shoppingList,
                           WithId(obj, keygen.shoppingList))
    /\ keygen' = [keygen EXCEPT !.shoppingList = @ + 1]

\* Storage.deleteShoppingItem
StorageDeleteShoppingItem(id) == shoppingList' = Delete(shoppingList, id)

\* no picture in the preview: the entry is saved with imageId null
AddShoppingItemPlain(t) ==
    /\ IsIdle(t)
    /\ keygen.shoppingList <= MaxShopping
    /\ \E name \in ShoppingNames : SaveShoppingItem(ShoppingItem(name, Null))
    /\ Returns(t, "ok")
    /\ UNCHANGED <<items, images, trash, customSections, weeklyPlan, savedOutfits,
                   localStorage, backupFile, worker, clock, app>>

\* a picture in the preview: it is saved first
AddShoppingItemSaveImage(t) ==
    /\ IsIdle(t)
    /\ keygen.shoppingList <= MaxShopping
    /\ clock <= MaxStamps
    /\ SaveImage(StampNow, Blob(clock))
    /\ clock' = clock + 1
    /\ \E name \in ShoppingNames :
         Becomes(t, [op |-> "addShoppingItem", pc |-> "saveImage",
                     name |-> name, imageId |-> StampNow])
    /\ UNCHANGED <<items, trash, customSections, shoppingList, weeklyPlan,
                   savedOutfits, keygen, localStorage, backupFile, worker, app, lastResult>>

AddShoppingItemSave(t) ==
    /\ Running(t, "addShoppingItem", "saveImage")
    /\ SaveShoppingItem(ShoppingItem(tasks[t].name, tasks[t].imageId))
    /\ Returns(t, "ok")
    /\ UNCHANGED <<items, images, trash, customSections, weeklyPlan, savedOutfits,
                   localStorage, backupFile, worker, clock, app>>

AddShoppingItem(t) ==
    \/ AddShoppingItemPlain(t)
    \/ AddShoppingItemSaveImage(t)
    \/ AddShoppingItemSave(t)

DeleteShoppingItem(t) ==
    /\ IsIdle(t)
    /\ \E itemId \in DOMAIN shoppingList : StorageDeleteShoppingItem(itemId)
    /\ Returns(t, "ok")
    /\ UNCHANGED <<items, images, trash, customSections, weeklyPlan, savedOutfits,
                   keygen, localStorage, backupFile, worker, clock, app>>

---------------------------------------------------------------------------
(* Migration.run on a legacy file that holds wardrobeData: for each legacy *)
(* item a new id from the time, an image id a tenth above it, the image    *)
(* saved when the legacy item has one, the item saved, a short delay.      *)

\* the legacy items of the file picked at clock reading c: n of them, the
\* ones in withImg with a picture
LegacyWardrobe(c, n, withImg) ==
    [i \in 1..n |-> [id |-> i, img |-> IF i \in withImg THEN Blob(c + i - 1) ELSE Null,
                     category |-> <<"tops">>, favorite |-> (i = 1)]]

\* the weeklyDefaults a legacy file may hold: none, or Monday wearing the
\* first legacy item
LegacyWeeklies == {<<>>, <<[day |-> "Monday", items |-> <<1>>]>>}

\* the day migrateWeekly makes of a legacy day: the ids it knows are mapped,
\* the others dropped
MigratedDay(legacy, idMap) ==
    LET known == SelectSeq(legacy.items, LAMBDA oldId : Has(idMap, oldId))
    IN  [day |-> legacy.day, type |-> "Regular Day",
         items |-> [i \in DOMAIN known |-> idMap[known[i]]], notes |-> ""]

\* the item migrateWardrobe makes of a legacy item
MigratedItem(legacy, newId) ==
    [id |-> newId, imageId |-> Plus01(newId), category |-> legacy.category,
     favorite |-> legacy.favorite, laundry |-> FALSE, dateAdded |-> IsoNow]

\* Storage.saveItem of a record that carries a new id: the key generator
\* moves past it
SaveItemWithKey(item) ==
    /\ SaveItem(item)
    /\ keygen' = [keygen EXCEPT !.items = Bump(@, item.id)]

\* Storage.saveWeeklyDay
SaveWeeklyDay(dayData) == weeklyPlan' = Put(weeklyPlan, dayData.day, dayData)

MigrationRun(t) ==
    /\ IsIdle(t)
    /\ clock <= MaxStamps
    /\ \E n \in 1..(MaxStamps + 1 - clock) : \E withImg \in SUBSET (1..n) :
         \E weeklyDefaults \in LegacyWeeklies :
             Becomes(t, [op |-> "migrate", pc |-> "item",
                         rest |-> LegacyWardrobe(clock, n, withImg),
                         idMap |-> EmptyStore, weeklyDefaults |-> weeklyDefaults])
    /\ UNCHANGED <<stores, keygen, localStorage, backupFile, worker, clock, app, lastResult>>

MigrateWardrobeItem(t) ==
    /\ Running(t, "migrate", "item")
    /\ tasks[t].rest # <<>>
    /\ LET legacy == Head(tasks[t].rest)
           newItem == MigratedItem(legacy, StampRandom)
       IN  IF legacy.img # Null
           THEN /\ SaveImage(newItem.imageId, legacy.img)
                /\ Becomes(t, [tasks[t] EXCEPT !.pc = "saveImage"])
                /\ UNCHANGED <<items, keygen, clock>>
           ELSE /\ SaveItemWithKey(newItem)
                /\ clock' = clock + 1
                /\ Becomes(t, [tasks[t] EXCEPT !.rest = Tail(@),
                                               !.idMap = Put(@, legacy.id, newItem.id)])
                /\ UNCHANGED images
    /\ UNCHANGED <<trash, customSections, shoppingList, weeklyPlan, savedOutfits,
                   localStorage, backupFile, worker, app, lastResult>>

MigrateWardrobeSaveItem(t) ==
    /\ Running(t, "migrate", "saveImage")
    /\ LET legacy == Head(tasks[t].rest)
           newItem == MigratedItem(legacy, StampRandom)
       IN  /\ SaveItemWithKey(newItem)
           /\ Becomes(t, [tasks[t] EXCEPT !.pc = "item", !.rest = Tail(@),
                                          !.idMap = Put(@, legacy.id, newItem.id)])
    /\ clock' = clock + 1
    /\ UNCHANGED <<images, trash, customSections, shoppingList, weeklyPlan,
                   savedOutfits, localStorage, backupFile, worker, app, lastResult>>

\* migrateWeekly: the legacy days are saved with the new ids
MigrateWeekly(t) ==
    /\ Running(t, "migrate", "item")
    /\ tasks[t].rest = <<>>
    /\ tasks[t].weeklyDefaults # <<>>
    /\ SaveWeeklyDay(MigratedDay(Head(tasks[t].weeklyDefaults), tasks[t].idMap))
    /\ Becomes(t, [tasks[t] EXCEPT !.weeklyDefaults = Tail(@)])
    /\ UNCHANGED <<items, images, trash, customSections, shoppingList, savedOutfits,
                   keygen, localStorage, backupFile, worker, clock, app, lastResult>>

\* parseAndMigrate's end: the migration is recorded in localStorage
MigrationDone(t) ==
    /\ Running(t, "migrate", "item")
    /\ tasks[t].rest = <<>>
    /\ tasks[t].weeklyDefaults = <<>>
    /\ localStorage' = SetMigrated(localStorage)
    /\ Returns(t, "ok")
    /\ UNCHANGED <<stores, keygen, clock, app, backupFile, worker>>

Migration(t) ==
    \/ MigrationRun(t)
    \/ MigrateWardrobeItem(t)
    \/ MigrateWardrobeSaveItem(t)
    \/ MigrateWeekly(t)
    \/ MigrationDone(t)

---------------------------------------------------------------------------
(* The weekly planner.  UI.renderWeeklyOutfits, run by App.init, fills an  *)
(* empty plan with five default days; the handlers below read the whole    *)
(* plan, change one day's record and put it back.                          *)

DefaultDay(day, type) == [day |-> day, type |-> type, items |-> <<>>, notes |-> ""]

DefaultWeeklyPlan ==
    Put(Put(Put(Put(Put(EmptyStore,
        "Monday", DefaultDay("Monday", "Business Casual")),
        "Tuesday", DefaultDay("Tuesday", "Client Day")),
        "Wednesday", DefaultDay("Wednesday", "Client Day")),
        "Thursday", DefaultDay("Thursday", "Client Day")),
        "Friday", DefaultDay("Friday", "Casual Friday"))

\* The state of a wardrobe after two photos were uploaded one by one under
\* 'tops' and the planner was rendered
InitWeekly ==
    /\ items = Put(Put(EmptyStore,
                 Num(1), WithId(NewItem(<<1, 1>>, <<"tops">>), Num(1))),
                 Num(2), WithId(NewItem(<<2, 1>>, <<"tops">>), Num(2)))
    /\ images = Put(Put(EmptyStore,
                 <<1, 1>>, [id |-> <<1, 1>>, data |-> Blob(1)]),
                 <<2, 1>>, [id |-> <<2, 1>>, data |-> Blob(2)])
    /\ trash = EmptyStore
    /\ customSections = EmptyStore
    /\ shoppingList = EmptyStore
    /\ weeklyPlan = DefaultWeeklyPlan
    /\ savedOutfits = EmptyStore
    /\ keygen = [items |-> 3, customSections |-> 1, shoppingList |-> 1, savedOutfits |-> 1]
    /\ localStorage = EmptyStore
    /\ backupFile = Null
    /\ worker = NoWorker
    /\ clock = 3
    /\ tasks = [t \in Slots |-> Idle]
    /\ app = [builderItems |-> <<>>, currentWeeklyDay |-> "null",
              currentMoveItemId |-> <<>>, dataTheme |-> FALSE, welcomeModal |-> FALSE,
              weatherLog |-> "none", currentWeather |-> <<>>]
    /\ lastResult = "ok"

\* The days whose canvas and buttons the model uses: the handlers overlap
\* on one day, the other four keep their default records
DrawnDays == {"Monday"}

\* weeklyPlan.find(d => d.day === day)
FindDay(plan, day) == Get(plan, day)

\* items.includes(itemId)
Includes_Never(seq, x) == FALSE

Includes(seq, x) == \E i \in DOMAIN seq : seq[i] = x

\* items.filter(id => id !== itemId)
FilterOut(seq, x) == SelectSeq(seq, LAMBDA y : y # x)

OpenWeeklyModal ==
    /\ \E day \in DrawnDays : app' = [app EXCEPT !.currentWeeklyDay = day]
    /\ UNCHANGED <<stores, keygen, localStorage, backupFile, worker, clock, tasks, lastResult>>

CloseWeeklyModal ==
    /\ app' = [app EXCEPT !.currentWeeklyDay = "null"]
    /\ UNCHANGED <<stores, keygen, localStorage, backupFile, worker, clock, tasks, lastResult>>

\* App.addToWeeklyFromModal up to the plan it reads (with no day chosen it
\* returns at once)
AddToWeeklyFromModalInvoke(t) ==
    /\ IsIdle(t)
    /\ app.currentWeeklyDay # "null"
    /\ \E itemId \in DOMAIN items :
         Becomes(t, [op |-> "addToWeeklyFromModal", pc |-> "getWeeklyPlan",
                     itemId |-> itemId, weeklyPlan |-> weeklyPlan])
    /\ UNCHANGED <<stores, keygen, localStorage, backupFile, worker, clock, app, lastResult>>

\* ... the day is looked up in the plan read, by the day chosen now
AddToWeeklyFromModalSave(t) ==
    /\ Running(t, "addToWeeklyFromModal", "getWeeklyPlan")
    /\ LET dayPlan == FindDay(tasks[t].weeklyPlan, app.currentWeeklyDay)
       IN  IF dayPlan = Undefined \/ Includes(dayPlan.items, tasks[t].itemId)
           THEN /\ Returns(t, "ok")
                /\ UNCHANGED weeklyPlan
           ELSE /\ SaveWeeklyDay([dayPlan EXCEPT !.items = Append(@, tasks[t].itemId)])
                /\ Becomes(t, [op |-> "addToWeeklyFromModal", pc |-> "saveWeeklyDay"])
                /\ UNCHANGED lastResult
    /\ UNCHANGED <<items, images, trash, customSections, shoppingList, savedOutfits,
                   keygen, localStorage, backupFile, worker, clock, app>>

\* ... and the modal is closed once the day is saved
AddToWeeklyFromModalClose(t) ==
    /\ Running(t, "addToWeeklyFromModal", "saveWeeklyDay")
    /\ app' = [app EXCEPT !.currentWeeklyDay = "null"]
    /\ Returns(t, "ok")
    /\ UNCHANGED <<stores, keygen, localStorage, backupFile, worker, clock>>

AddToWeeklyFromModal(t) ==
    \/ AddToWeeklyFromModalInvoke(t)
    \/ AddToWeeklyFromModalSave(t)
    \/ AddToWeeklyFromModalClose(t)

\* DragDrop.addToWeeklyOutfit: an item dropped on a day's canvas
AddToWeeklyOutfitInvoke(t) ==
    /\ IsIdle(t)
    /\ \E day \in DrawnDays, itemId \in DOMAIN items :
         Becomes(t, [op |-> "addToWeeklyOutfit", pc |-> "getWeeklyPlan",
                     itemId |-> ParseInt(itemId), dayPlan |-> FindDay(weeklyPlan, day)])
    /\ UNCHANGED <<stores, keygen, localStorage, backupFile, worker, clock, app, lastResult>>

AddToWeeklyOutfitSave(t) ==
    /\ Running(t, "addToWeeklyOutfit", "getWeeklyPlan")
    /\ LET dayPlan == tasks[t].dayPlan
       IN  IF dayPlan = Undefined \/ Includes(dayPlan.items, tasks[t].itemId)
           THEN UNCHANGED weeklyPlan
           ELSE SaveWeeklyDay([dayPlan EXCEPT !.items = Append(@, tasks[t].itemId)])
    /\ Returns(t, "ok")
    /\ UNCHANGED <<items, images, trash, customSections, shoppingList, savedOutfits,
                   keygen, localStorage, backupFile, worker, clock, app>>

AddToWeeklyOutfit(t) ==
    \/ AddToWeeklyOutfitInvoke(t)
    \/ AddToWeeklyOutfitSave(t)

\* App.removeFromWeekly: the x on an item of a day
RemoveFromWeeklyInvoke(t) ==
    /\ IsIdle(t)
    /\ \E day \in DrawnDays, itemId \in DOMAIN items :
         Becomes(t, [op |-> "removeFromWeekly", pc |-> "getWeeklyPlan",
                     itemId |-> itemId, dayPlan |-> FindDay(weeklyPlan, day)])
    /\ UNCHANGED <<stores, keygen, localStorage, backupFile, worker, clock, app, lastResult>>

RemoveFromWeeklySave(t) ==
    /\ Running(t, "removeFromWeekly", "getWeeklyPlan")
    /\ LET dayPlan == tasks[t].dayPlan
       IN  IF dayPlan = Undefined
           THEN UNCHANGED weeklyPlan
           ELSE SaveWeeklyDay([dayPlan EXCEPT !.items = FilterOut(@, tasks[t].itemId)])
    /\ Returns(t, "ok")
    /\ UNCHANGED <<items, images, trash, customSections, shoppingList, savedOutfits,
                   keygen, localStorage, backupFile, worker, clock, app>>

RemoveFromWeekly(t) ==
    \/ RemoveFromWeeklyInvoke(t)
    \/ RemoveFromWeeklySave(t)

---------------------------------------------------------------------------
(* The weather widget.  UI.renderWeather fetches a forecast unless the     *)
(* cached one is younger than CACHE_DURATION, and caches what it fetched.  *)

\* Weather.CACHE_DURATION, in ticks of the model's clock
CACHE_DURATION == 1

\* a cache that is never trusted
CacheIsFresh_Never(ls) == FALSE

\* the cached forecast is used
CacheIsFresh(ls) ==
    LET cached == GetSetting(ls, "weatherCache", Null)
    IN  JsTruthy(cached) /\ clock - cached[2].timestamp < CACHE_DURATION

AwaitingWeather(t) == ~IsIdle(t) /\ tasks[t].pc = "renderWeather"

\* what follows the widget in the handler: App.init asks for the location
\* when none is saved, the other handlers are done
AfterWeather(t) ==
    IF tasks[t].op = "init" /\ ~JsTruthy(GetSetting(localStorage, "location", Null))
    THEN /\ Becomes(t, [op |-> "init", pc |-> "requestLocation"])
         /\ UNCHANGED lastResult
    ELSE Returns(t, "ok")

DEFAULT_LOCATION == [lat |-> "33.2148", lon |-> "-97.1331", name |-> "Denton, Texas"]

DetectedLocation == [lat |-> "latitude", lon |-> "longitude", name |-> "Here"]

\* Weather.getLocation: saved || this.DEFAULT_LOCATION
GetLocation(ls) ==
    LET saved == GetSetting(ls, "location", Null)
    IN  IF JsTruthy(saved) THEN saved[2] ELSE DEFAULT_LOCATION

\* the forecast Open-Meteo answers now, in the unit and for the coordinates
\* asked for
Forecast(ls) ==
    <<"forecast", clock, GetSetting(ls, "tempUnit", Str("fahrenheit")),
      <<GetLocation(ls).lat, GetLocation(ls).lon>>>>

\* UI.renderWeather with the data fetchWeather returned: the widget shows
\* it and window.currentWeather keeps it; log is what fetchWeather wrote to
\* the console
WeatherShown(log, data) ==
    app' = [app EXCEPT !.weatherLog = log, !.currentWeather = data]

\* the cached forecast is young enough: no request is made
WeatherFromCache(t) ==
    /\ AwaitingWeather(t)
    /\ CacheIsFresh(localStorage)
    /\ WeatherShown("Using cached weather data",
                    GetSetting(localStorage, "weatherCache", Null)[2].data)
    /\ AfterWeather(t)
    /\ UNCHANGED <<stores, keygen, localStorage, backupFile, worker, clock>>

\* the forecast is fetched and cached
WeatherFetched(t) ==
    /\ AwaitingWeather(t)
    /\ ~CacheIsFresh(localStorage)
    /\ localStorage' = SetSetting(localStorage, "weatherCache",
                                  Obj([data |-> Forecast(localStorage), timestamp |-> clock]))
    /\ WeatherShown("fetched", Forecast(localStorage))
    /\ AfterWeather(t)
    /\ UNCHANGED <<stores, keygen, backupFile, worker, clock>>

\* the request fails: the cached forecast is returned whatever its age, and
\* without one the widget shows that the weather is unavailable
WeatherFetchFails(t) ==
    /\ AwaitingWeather(t)
    /\ ~CacheIsFresh(localStorage)
    /\ LET cached == GetSetting(localStorage, "weatherCache", Null)
       IN  IF JsTruthy(cached)
           THEN WeatherShown("Using stale cached weather data", cached[2].data)
           ELSE app' = [app EXCEPT !.weatherLog = "Weather fetch error"]
    /\ AfterWeather(t)
    /\ UNCHANGED <<stores, keygen, localStorage, backupFile, worker, clock>>

RenderWeather(t) ==
    \/ WeatherFromCache(t)
    \/ WeatherFetched(t)
    \/ WeatherFetchFails(t)

\* App.refreshWeather
RefreshWeather(t) ==
    /\ IsIdle(t)
    /\ localStorage' = SetSetting(localStorage, "weatherCache", Null)
    /\ Becomes(t, [op |-> "refreshWeather", pc |-> "renderWeather"])
    /\ UNCHANGED <<stores, keygen, backupFile, worker, clock, app, lastResult>>

\* time passes
TimePasses ==
    /\ clock <= MaxStamps
    /\ clock' = clock + 1
    /\ UNCHANGED <<stores, keygen, localStorage, backupFile, worker, tasks, app, lastResult>>

\* App.requestLocation when the position is refused or unavailable
LocationDenied(t) ==
    /\ ~IsIdle(t)
    /\ tasks[t].pc = "requestLocation"
    /\ localStorage' = SetSetting(localStorage, "location", Obj(DEFAULT_LOCATION))
    /\ Returns(t, "ok")
    /\ UNCHANGED <<stores, keygen, backupFile, worker, clock, app>>

\* Weather.getCurrentLocation when the position is given; the widget is
\* rendered again
LocationGranted(t) ==
    /\ ~IsIdle(t)
    /\ tasks[t].pc = "requestLocation"
    /\ localStorage' = SetSetting(localStorage, "location", Obj(DetectedLocation))
    /\ Becomes(t, [op |-> "requestLocation", pc |-> "renderWeather"])
    /\ UNCHANGED <<stores, keygen, backupFile, worker, clock, app, lastResult>>

RequestLocation(t) ==
    \/ LocationDenied(t)
    \/ LocationGranted(t)

\* App.detectLocation, the button of the settings modal: the position is
\* saved when it is given, and the input shows that it was not otherwise
DetectLocation(t) ==
    /\ IsIdle(t)
    /\ \E given \in BOOLEAN :
         /\ localStorage' = IF given
                            THEN SetSetting(localStorage, "location", Obj(DetectedLocation))
                            ELSE localStorage
         /\ Returns(t, IF given THEN "ok" ELSE "error")
    /\ UNCHANGED <<stores, keygen, backupFile, worker, clock, app>>

---------------------------------------------------------------------------
(* App.init on a loaded page: the theme, the first render (which fills an  *)
(* empty weekly plan with the default days), the weather, the location.    *)

\* the App object of a page just loaded
LoadedApp ==
    [builderItems |-> <<>>, currentWeeklyDay |-> "null", currentMoveItemId |-> <<>>,
     dataTheme |-> FALSE, welcomeModal |-> FALSE,
              weatherLog |-> "none", currentWeather |-> <<>>]

PageLoaded == [op |-> "init", pc |-> "refreshAll"]

AppInitRefreshAll(t) ==
    /\ Running(t, "init", "refreshAll")
    /\ app' = [app EXCEPT !.welcomeModal = IsFirstRun(localStorage),
                           !.dataTheme = ~IsFirstRun(localStorage) /\ LoadTheme(localStorage)]
    /\ weeklyPlan' = IF DOMAIN weeklyPlan = {} THEN DefaultWeeklyPlan ELSE weeklyPlan
    /\ Becomes(t, [op |-> "init", pc |-> "renderWeather"])
    /\ UNCHANGED <<items, images, trash, customSections, shoppingList, savedOutfits,
                   keygen, localStorage, backupFile, worker, clock, lastResult>>

\* the page is opened again: a new App object, App.init runs
ReloadPage ==
    /\ \A t \in Slots : IsIdle(t)
    /\ app' = LoadedApp
    /\ tasks' = [t \in Slots |-> IF t = 1 THEN PageLoaded ELSE Idle]
    /\ UNCHANGED <<stores, keygen, localStorage, backupFile, worker, clock, lastResult>>

AppInit(t) ==
    \/ AppInitRefreshAll(t)
    \/ RenderWeather(t)
    \/ RequestLocation(t)

UserNames == {"Emily"}

\* App.completeWelcome, the button of the welcome modal
CompleteWelcome(t) ==
    /\ IsIdle(t)
    /\ app.welcomeModal
    /\ \E name \in UserNames :
         /\ localStorage' = SetMigrated(SetSetting(localStorage, "userName", Str(name)))
         /\ app' = [app EXCEPT !.welcomeModal = FALSE,
                                !.dataTheme = LoadTheme(localStorage')]
    /\ Becomes(t, [op |-> "completeWelcome", pc |-> "requestLocation"])
    /\ UNCHANGED <<stores, keygen, backupFile, worker, clock, lastResult>>

\* App.saveSettings
TempUnits == {"fahrenheit", "celsius"}

SaveSettings(t) ==
    /\ IsIdle(t)
    /\ \E name \in UserNames, tempUnit \in TempUnits :
         localStorage' =
             SetSetting(SetSetting(SetSetting(localStorage,
                 "userName", Str(name)), "tempUnit", Str(tempUnit)), "weatherCache", Null)
    /\ Becomes(t, [op |-> "saveSettings", pc |-> "renderWeather"])
    /\ UNCHANGED <<stores, keygen, backupFile, worker, clock, app, lastResult>>

---------------------------------------------------------------------------
(* Backup.  Storage.exportAllData collects the stores and four settings in *)
(* one document; Storage.importAllData clears the stores and saves the     *)
(* document's records.  A list of the document is kept as the records by   *)
(* key: getAll returns one record per key, and import puts them by key.    *)

ExportedSettings == {"userName", "theme", "location", "tempUnit"}

\* Storage.getImage: the image's data, or null
GetImage(store, id) == IF Has(store, id) THEN store[id].data ELSE Null

\* the images exportAllData collects: those of the items
ExportedImages(fromItems, fromImages) ==
    LET ids == {fromItems[k].imageId : k \in WithImage(fromItems)}
        found == {id \in ids : GetImage(fromImages, id) # Null}
    IN  [id \in found |-> [id |-> id, data |-> GetImage(fromImages, id)]]

\* Storage.exportAllData
ExportAllData ==
    [version |-> 1,
     exportDate |-> IsoNow,
     items |-> items,
     images |-> ExportedImages(items, images),
     weeklyPlan |-> weeklyPlan,
     savedOutfits |-> savedOutfits,
     customSections |-> customSections,
     shoppingList |-> shoppingList,
     settings |-> [key \in ExportedSettings |-> GetSetting(localStorage, key, Null)]]

\* a loop of puts of records that carry their keys
PutAll(store, records) ==
    [k \in DOMAIN store \cup DOMAIN records |->
        IF k \in DOMAIN records THEN records[k] ELSE store[k]]

\* importAllData's settings: a value is set when it is truthy
ImportSetting(ls, settings, key) ==
    IF JsTruthy(settings[key]) THEN SetSetting(ls, key, settings[key]) ELSE ls

ImportSettings(ls, settings) ==
    ImportSetting(ImportSetting(ImportSetting(ImportSetting(ls,
        settings, "userName"), settings, "theme"), settings, "location"),
        settings, "tempUnit")

\* Storage.importAllData(data) on a device whose stores and localStorage
\* are empty: what the stores and localStorage hold when it returns
ImportedOnEmpty(data) ==
    [items |-> PutAll(EmptyStore, data.items),
     images |-> PutAll(EmptyStore, data.images),
     weeklyPlan |-> PutAll(EmptyStore, data.weeklyPlan),
     savedOutfits |-> PutAll(EmptyStore, data.savedOutfits),
     customSections |-> PutAll(EmptyStore, data.customSections),
     shoppingList |-> PutAll(EmptyStore, data.shoppingList),
     trash |-> EmptyStore,
     localStorage |-> ImportSettings(EmptyStore, data.settings)]

\* App.exportData: the document is downloaded as a JSON file
ExportData(t) ==
    /\ IsIdle(t)
    /\ backupFile' = JsonText(ExportAllData)
    /\ Returns(t, "ok")
    /\ UNCHANGED <<stores, keygen, localStorage, worker, clock, app>>

\* the order in which clearAllData clears the stores and importAllData
\* saves the lists of the document
ClearOrder ==
    <<"items", "images", "weeklyPlan", "savedOutfits", "customSections",
      "shoppingList", "trash">>

ImportOrder_ItemsFirst ==
    <<"items", "images", "weeklyPlan", "savedOutfits", "customSections", "shoppingList">>

ImportOrder ==
    <<"images", "items", "weeklyPlan", "savedOutfits", "customSections", "shoppingList">>

\* the check importAllData makes of the document before it touches a store
ValidFormat_NotNull(data) == data # Null

ValidFormat(data) == data # Null /\ "version" \in DOMAIN data /\ data.version = 1

\* files the user may pick that are no backup of this application: a file
\* that is no JSON, the JSON text null, a document of another version
ForeignFiles ==
    {RawText("<html>"), JsonText(Null), JsonText([ExportAllData EXCEPT !.version = 2])}

PickableFiles == (IF backupFile = Null THEN {} ELSE {backupFile}) \cup ForeignFiles

\* the days in key order
DayOrder == <<"Friday", "Monday", "Thursday", "Tuesday", "Wednesday">>

\* the records of a list of the document in the order of the list: getAll
\* returned them by key
KeysInOrder(name, records) ==
    CASE name \in {"images", "items"} -> SortedKeys(DOMAIN records)
      [] name = "weeklyPlan" -> SelectSeq(DayOrder, LAMBDA day : day \in DOMAIN records)
      [] OTHER -> LET byNum == SortedKeys({Num(k) : k \in DOMAIN records})
                  IN  [i \in DOMAIN byNum |-> byNum[i][1]]

\* where importAllData's loops stand: the lists still to save and the keys
\* left of the first of them; lists that are empty are passed over
RECURSIVE LoopsFrom(_, _)
LoopsFrom(data, lists) ==
    IF lists = <<>> THEN [lists |-> <<>>, keys |-> <<>>]
    ELSE LET keys == KeysInOrder(Head(lists), data[Head(lists)])
         IN  IF keys = <<>> THEN LoopsFrom(data, Tail(lists))
             ELSE [lists |-> lists, keys |-> keys]

\* the handler in flight inside importAllData at that point
Importing(data, at) ==
    IF at.lists = <<>>
    THEN [op |-> "importData", pc |-> "settings", data |-> data]
    ELSE [op |-> "importData", pc |-> "save", data |-> data,
          lists |-> at.lists, keys |-> at.keys]

\* App.importData: the file picked is parsed; importAllData checks the
\* document and clearAllData clears the first store
ImportDataInvoke(t, file) ==
    /\ IsIdle(t)
    /\ IF file[1] # "json" \/ ~ValidFormat(file[2])
       THEN /\ Returns(t, "error")
            /\ UNCHANGED items
       ELSE /\ items' = EmptyStore
            /\ Becomes(t, [op |-> "importData", pc |-> "clearAllData", data |-> file[2],
                           left |-> Tail(ClearOrder)])
            /\ UNCHANGED lastResult
    /\ UNCHANGED <<images, trash, customSections, shoppingList, weeklyPlan, savedOutfits,
                   keygen, localStorage, backupFile, worker, clock, app>>

Cleared(store, name, this) == IF name = this THEN EmptyStore ELSE store

\* clearAllData, the next store
ImportDataClear(t) ==
    /\ Running(t, "importData", "clearAllData")
    /\ LET name == Head(tasks[t].left)
       IN  /\ images' = Cleared(images, name, "images")
           /\ weeklyPlan' = Cleared(weeklyPlan, name, "weeklyPlan")
           /\ savedOutfits' = Cleared(savedOutfits, name, "savedOutfits")
           /\ customSections' = Cleared(customSections, name, "customSections")
           /\ shoppingList' = Cleared(shoppingList, name, "shoppingList")
           /\ trash' = Cleared(trash, name, "trash")
    /\ IF Tail(tasks[t].left) = <<>>
       THEN Becomes(t, Importing(tasks[t].data, LoopsFrom(tasks[t].data, ImportOrder)))
       ELSE Becomes(t, [tasks[t] EXCEPT !.left = Tail(@)])
    /\ UNCHANGED <<items, keygen, localStorage, backupFile, worker, clock, app, lastResult>>

Saved(store, name, this, k, record) == IF name = this THEN Put(store, k, record) ELSE store

\* importAllData, the next record of the document
ImportDataSave(t) ==
    /\ Running(t, "importData", "save")
    /\ LET data == tasks[t].data
           name == Head(tasks[t].lists)
           k == Head(tasks[t].keys)
           record == data[name][k]
       IN  /\ images' = Saved(images, name, "images", k, record)
           /\ items' = Saved(items, name, "items", k, record)
           /\ weeklyPlan' = Saved(weeklyPlan, name, "weeklyPlan", k, record)
           /\ savedOutfits' = Saved(savedOutfits, name, "savedOutfits", k, record)
           /\ customSections' = Saved(customSections, name, "customSections", k, record)
           /\ shoppingList' = Saved(shoppingList, name, "shoppingList", k, record)
           /\ keygen' =
                CASE name = "items" -> [keygen EXCEPT !.items = Bump(@, k)]
                  [] name \in {"savedOutfits", "customSections", "shoppingList"} ->
                       [keygen EXCEPT ![name] = BumpInt(@, k)]
                  [] OTHER -> keygen
           /\ Becomes(t, IF Tail(tasks[t].keys) # <<>>
                         THEN [tasks[t] EXCEPT !.keys = Tail(@)]
                         ELSE Importing(data, LoopsFrom(data, Tail(tasks[t].lists))))
    /\ UNCHANGED <<trash, localStorage, backupFile, worker, clock, app, lastResult>>

\* importAllData's settings, and the page reloaded
ImportDataSettings(t) ==
    /\ Running(t, "importData", "settings")
    /\ localStorage' = ImportSettings(localStorage, tasks[t].data.settings)
    /\ app' = LoadedApp
    /\ tasks' = [s \in Slots |-> IF s = t THEN PageLoaded ELSE Idle]
    /\ lastResult' = "ok"
    /\ UNCHANGED <<stores, keygen, backupFile, worker, clock>>

ImportDataRun(t) ==
    \/ ImportDataClear(t)
    \/ ImportDataSave(t)
    \/ ImportDataSettings(t)

ImportData(t) ==
    \/ \E file \in PickableFiles : ImportDataInvoke(t, file)
    \/ ImportDataRun(t)

\* App.importData when the file picked is always the backup downloaded last
ImportBackup(t) ==
    \/ backupFile # Null /\ ImportDataInvoke(t, backupFile)
    \/ ImportDataRun(t)

\* A page just loaded on a new device: the stores created, App.init about
\* to render
InitLoaded ==
    /\ items = EmptyStore
    /\ images = EmptyStore
    /\ trash = EmptyStore
    /\ customSections = EmptyStore
    /\ shoppingList = EmptyStore
    /\ weeklyPlan = EmptyStore
    /\ savedOutfits = EmptyStore
    /\ keygen = [items |-> 1, customSections |-> 1, shoppingList |-> 1, savedOutfits |-> 1]
    /\ localStorage = EmptyStore
    /\ backupFile = Null
    /\ worker = NoWorker
    /\ clock = 1
    /\ tasks = [t \in Slots |-> IF t = 1 THEN PageLoaded ELSE Idle]
    /\ app = LoadedApp
    /\ lastResult = "none"

---------------------------------------------------------------------------
(* A storage call that fails.  Every Storage method rejects its promise    *)
(* when the request fails; the handlers that chain several calls do not    *)
(* catch it, so the handler ends there with the earlier calls done.        *)

\* the call the handler is waiting to make writes to a store
NextCallWrites(task) ==
    CASE task.op = "deleteItem" ->
             task.pc = "saveToTrash" \/ (task.pc = "getItem" /\ task.item # Undefined)
      [] task.op \in {"restoreItem", "restoreToCategory"} -> task.item # Undefined
      [] task.op = "deleteSection" -> TRUE
      [] task.op = "processUpload" -> task.pc = "saveImage" \/ task.rest # <<>>
      [] OTHER -> FALSE

StorageCallFails(t) ==
    /\ ~IsIdle(t)
    /\ NextCallWrites(tasks[t])
    /\ Returns(t, "error")
    /\ UNCHANGED <<stores, keygen, localStorage, backupFile, worker, clock, app>>

---------------------------------------------------------------------------
(* Rendering an outfit.  UI.renderWeeklyDayItems and UI.renderBuilderCanvas *)
(* look each id up in the items store and its picture in the images store,  *)
(* and pass over the ids for which either lookup finds nothing.             *)

\* the thumbnails shown for the ids of an outfit, in order
RenderOutfitThumbs(itemIds) ==
    SelectSeq(itemIds, LAMBDA itemId :
        /\ Has(items, itemId)
        /\ GetImage(images, items[itemId].imageId) # Null)

\* UI.renderWeeklyDayItems
RenderWeeklyDayItems(day) == RenderOutfitThumbs(weeklyPlan[day].items)

\* UI.renderBuilderCanvas
RenderBuilderCanvas == RenderOutfitThumbs(app.builderItems)

---------------------------------------------------------------------------
(* The service worker (sw.js).  install caches the application's assets,   *)
(* fetch answers GET requests: the weather and geocoding hosts from the    *)
(* network first, everything else from the cache first.  A cache entry is  *)
(* kept under <<host, path>>.                                              *)

ASSETS_TO_CACHE ==
    {"/", "/index.html", "/css/main.css", "/css/components.css", "/css/modal.css",
     "/css/responsive.css", "/js/app.js", "/js/storage.js", "/js/weather.js",
     "/js/ui.js", "/js/dragdrop.js", "/manifest.json"}

Origin == "wardrobe.example"

ApiHosts == {"api.open-meteo.com", "geocoding-api.open-meteo.com", "nominatim.openstreetmap.org"}

\* the requests the pages make: assets, a picture that is no asset, a page
\* address with a query, the forecast, and a POST
SwRequests ==
    {[method |-> "GET", host |-> Origin, path |-> "/index.html", mode |-> "navigate"],
     [method |-> "GET", host |-> Origin, path |-> "/index.html?source=pwa", mode |-> "navigate"],
     [method |-> "GET", host |-> Origin, path |-> "/js/app.js", mode |-> "no-cors"],
     [method |-> "GET", host |-> Origin, path |-> "/icons/icon.png", mode |-> "no-cors"],
     [method |-> "GET", host |-> "api.open-meteo.com", path |-> "/v1/forecast", mode |-> "cors"],
     [method |-> "POST", host |-> Origin, path |-> "/index.html", mode |-> "cors"]}

\* how a fetch of the network ends: a 200 response, another status, or a
\* rejected promise
NetworkOutcomes == {"200", "500", "failed"}

CacheKey(request) == <<request.host, request.path>>

\* a response: where the answer came from and what it answers
SwResponse(via, key, status, fetched) ==
    [via |-> via, key |-> key, status |-> status, fetched |-> fetched]

\* caches.match
CachesMatch(cache, key, fetched) ==
    IF Has(cache, key) THEN SwResponse("cache", key, cache[key], fetched)
    ELSE SwResponse("nothing", key, "none", fetched)

\* cache.addAll(ASSETS_TO_CACHE): every asset or none
AddAll(cache) == [key \in DOMAIN cache \cup {<<Origin, path>> : path \in ASSETS_TO_CACHE} |-> "200"]

\* the install event: the assets are cached, or caching fails and the error
\* is logged; the worker is activated either way
SwInstall ==
    /\ ~worker.active
    /\ \E cached \in BOOLEAN :
         worker' = [worker EXCEPT !.active = TRUE,
                                  !.cache = IF cached THEN AddAll(@) ELSE @]
    /\ UNCHANGED <<stores, keygen, localStorage, backupFile, clock, tasks, app, lastResult>>

\* the message CLEAR_CACHE
SwClearCache ==
    /\ worker.active
    /\ worker.cache # <<>>
    /\ worker' = [worker EXCEPT !.cache = <<>>]
    /\ UNCHANGED <<stores, keygen, localStorage, backupFile, clock, tasks, app, lastResult>>

\* the network-first branch
SwNetworkFirst(cache, request, outcome) ==
    LET key == CacheKey(request)
    IN  CASE outcome = "200" ->
               [cache |-> Put(cache, key, "200"),
                respondedWith |-> SwResponse("network", key, "200", TRUE)]
          [] outcome = "500" ->
               [cache |-> cache, respondedWith |-> SwResponse("network", key, "500", TRUE)]
          [] OTHER ->
               [cache |-> cache, respondedWith |-> CachesMatch(cache, key, TRUE)]

\* the cache-first branch
SwCacheFirst(cache, request, outcome) ==
    LET key == CacheKey(request)
    IN  IF Has(cache, key)
        THEN [cache |-> cache, respondedWith |-> CachesMatch(cache, key, FALSE)]
        ELSE CASE outcome = "200" ->
                    [cache |-> Put(cache, key, "200"),
                     respondedWith |-> SwResponse("network", key, "200", TRUE)]
               [] outcome = "500" ->
                    [cache |-> cache,
                     respondedWith |-> SwResponse("network", key, "500", TRUE)]
               [] OTHER ->
                    [cache |-> cache,
                     respondedWith |->
                         IF request.mode = "navigate"
                         THEN CachesMatch(cache, <<Origin, "/index.html">>, TRUE)
                         ELSE SwResponse("nothing", key, "none", TRUE)]

\* the fetch event
SwFetch(request, outcome) ==
    /\ worker.active
    /\ LET handled ==
               IF request.method # "GET"
               THEN [cache |-> worker.cache,
                     respondedWith |-> SwResponse("not intercepted", CacheKey(request), "none", FALSE)]
               ELSE IF request.host \in ApiHosts
               THEN SwNetworkFirst(worker.cache, request, outcome)
               ELSE SwCacheFirst(worker.cache, request, outcome)
       IN  worker' = [worker EXCEPT !.cache = handled.cache,
                                    !.respondedWith = handled.respondedWith]
    /\ UNCHANGED <<stores, keygen, localStorage, backupFile, clock, tasks, app, lastResult>>

---------------------------------------------------------------------------
(* The outfit builder: App.builderItems is the outfit being put together.  *)

\* new Date().toLocaleString()
LocaleNow == "locale-date"

\* what the notes field of the builder may hold
BuilderNotes == {"", "gym"}

\* push without the includes test
PushNew_Always(builderItems, itemId) == Append(builderItems, itemId)

\* if (this.builderItems.includes(itemId)) return; this.builderItems.push(itemId)
PushNew(builderItems, itemId) ==
    IF Includes(builderItems, itemId) THEN builderItems ELSE Append(builderItems, itemId)

\* App.addToBuilder: the + of a card (its id) or a card dropped on the
\* canvas (parseInt of the card's data-id)
AddToBuilder(t) ==
    /\ IsIdle(t)
    /\ \E itemId \in DOMAIN items \cup {ParseInt(k) : k \in DOMAIN items} :
         app' = [app EXCEPT !.builderItems = PushNew(@, itemId)]
    /\ Returns(t, "ok")
    /\ UNCHANGED <<stores, keygen, localStorage, backupFile, worker, clock>>

\* App.removeFromBuilder: the x of a thumbnail on the canvas
RemoveFromBuilder(t) ==
    /\ IsIdle(t)
    /\ \E i \in DOMAIN app.builderItems :
         app' = [app EXCEPT !.builderItems = FilterOut(@, app.builderItems[i])]
    /\ Returns(t, "ok")
    /\ UNCHANGED <<stores, keygen, localStorage, backupFile, worker, clock>>

\* App.clearBuilder
ClearBuilder(t) ==
    /\ IsIdle(t)
    /\ app' = [app EXCEPT !.builderItems = <<>>]
    /\ Returns(t, "ok")
    /\ UNCHANGED <<stores, keygen, localStorage, backupFile, worker, clock>>

\* App.saveBuilderOutfit up to its await: nothing to do for an empty
\* builder, else the outfit is made of a copy of builderItems
SaveBuilderOutfitInvoke(t) ==
    /\ IsIdle(t)
    /\ keygen.savedOutfits <= MaxOutfits
    /\ IF Len(app.builderItems) = 0
       THEN /\ Returns(t, "ok")
       ELSE /\ \E notes \in BuilderNotes :
                 Becomes(t, [op |-> "saveBuilderOutfit", pc |-> "saveOutfit",
                             outfit |-> [items |-> app.builderItems, notes |-> notes,
                                         date |-> LocaleNow]])
            /\ UNCHANGED lastResult
    /\ UNCHANGED <<stores, keygen, localStorage, backupFile, worker, clock, app>>

\* Storage.saveOutfit: put of a record without id, the key generator makes it
SaveOutfit(outfit) ==
    /\ savedOutfits' = Put(savedOutfits, keygen.savedOutfits,
                           With(outfit, "id", keygen.savedOutfits))
    /\ keygen' = [keygen EXCEPT !.savedOutfits = @ + 1]

\* await Storage.saveOutfit(outfit); this.clearBuilder()
SaveBuilderOutfitSave(t) ==
    /\ Running(t, "saveBuilderOutfit", "saveOutfit")
    /\ SaveOutfit(tasks[t].outfit)
    /\ app' = [app EXCEPT !.builderItems = <<>>]
    /\ Returns(t, "ok")
    /\ UNCHANGED <<items, images, trash, customSections, shoppingList, weeklyPlan,
                   localStorage, backupFile, worker, clock>>

SaveBuilderOutfit(t) ==
    \/ SaveBuilderOutfitInvoke(t)
    \/ SaveBuilderOutfitSave(t)

\* App.loadSavedOutfit: Storage.getAllSavedOutfits, outfits.find by id
LoadSavedOutfitInvoke(t) ==
    /\ IsIdle(t)
    /\ \E outfitId \in DOMAIN savedOutfits :
         Becomes(t, [op |-> "loadSavedOutfit", pc |-> "getAllSavedOutfits",
                     outfit |-> Get(savedOutfits, outfitId)])
    /\ UNCHANGED <<stores, keygen, localStorage, backupFile, worker, clock, app, lastResult>>

\* this.builderItems = [...outfit.items]
LoadSavedOutfitSet(t) ==
    /\ Running(t, "loadSavedOutfit", "getAllSavedOutfits")
    /\ IF tasks[t].outfit = Undefined
       THEN UNCHANGED app
       ELSE app' = [app EXCEPT !.builderItems = tasks[t].outfit.items]
    /\ Returns(t, "ok")
    /\ UNCHANGED <<stores, keygen, localStorage, backupFile, worker, clock>>

LoadSavedOutfit(t) ==
    \/ LoadSavedOutfitInvoke(t)
    \/ LoadSavedOutfitSet(t)

---------------------------------------------------------------------------
(* Settings.  The values the application passes to Storage.setSetting.     *)

\* a name typed into the welcome or the settings modal is any text: 'true'
\* is one that spells a JSON literal
TypedNames == {"Emily", "true"}

\* the forecast cached by fetchWeather
CachedForecast == [data |-> Forecast(localStorage), timestamp |-> clock]

\* the values the application stores under a key
StoredValues(key) ==
    CASE key = "userName" -> {Str(name) : name \in TypedNames}
      [] key = "theme" -> {Str("light"), Str("dark")}
      [] key = "location" -> {Obj(DEFAULT_LOCATION), Obj(DetectedLocation)}
      [] key = "tempUnit" -> {Str(unit) : unit \in TempUnits}
      [] key = "weatherCache" -> {Obj(CachedForecast), Null}

\* a call of Storage.setSetting(key, value)
StorageSetSetting(key, value) ==
    /\ localStorage' = SetSetting(localStorage, key, value)
    /\ UNCHANGED <<stores, keygen, backupFile, worker, clock, tasks, app, lastResult>>

---------------------------------------------------------------------------
(* Specifications.  In each, handlers run one at a time unless it says     *)
(* otherwise: a handler is started only when none is in flight.            *)

\* The life of an item: upload, favorite, trash, restore, purge.
NextTrash ==
    \E t \in SerialSlots :
        \/ ProcessUpload(t)
        \/ ToggleFavorite(t)
        \/ DeleteItem(t)
        \/ RestoreItem(t)
        \/ RestoreToCategory(t)
        \/ EmptyTrash(t)

Spec == Init /\ [][NextTrash]_vars

\* Custom sections and the items filed under them.
NextSections ==
    \E t \in SerialSlots :
        \/ CreateNewSection(t)
        \/ ProcessUpload(t)
        \/ MoveItemToCategory(t)
        \/ DeleteItem(t)
        \/ DeleteSection(t)
        \/ RestoreItem(t)

SpecSections == Init /\ [][NextSections]_vars

\* The shopping list beside the wardrobe.
NextShopping ==
    \E t \in SerialSlots :
        \/ ProcessUpload(t)
        \/ DeleteItem(t)
        \/ EmptyTrash(t)
        \/ AddShoppingItem(t)
        \/ DeleteShoppingItem(t)

SpecShopping == Init /\ [][NextShopping]_vars

\* A wardrobe filled by uploads and by the migration of a legacy file.
NextMigration ==
    \E t \in SerialSlots :
        \/ Migration(t)
        \/ ProcessUpload(t)
        \/ HandleBuilderUpload(t)
        \/ DeleteItem(t)
        \/ RestoreItem(t)
        \/ EmptyTrash(t)

SpecMigration == Init /\ [][NextMigration]_vars

\* The weekly planner, its handlers overlapping: a handler may start while
\* others are between their storage calls.
NextWeekly ==
    \/ OpenWeeklyModal
    \/ CloseWeeklyModal
    \/ \E t \in Slots :
        \/ AddToWeeklyFromModal(t)
        \/ AddToWeeklyOutfit(t)
        \/ RemoveFromWeekly(t)

SpecWeekly == InitWeekly /\ [][NextWeekly]_vars

\* Backups: a wardrobe, a shopping list and settings, exported and imported.
NextBackup ==
    \E t \in SerialSlots :
        \/ AppInit(t)
        \/ ProcessUpload(t)
        \/ AddShoppingItem(t)
        \/ SaveSettings(t)
        \/ ExportData(t)
        \/ ImportBackup(t)

SpecBackup == InitLoaded /\ [][NextBackup]_vars

\* Import of any file the user may pick, into a wardrobe with items and trash.
NextImport ==
    \E t \in SerialSlots :
        \/ AppInit(t)
        \/ ProcessUpload(t)
        \/ DeleteItem(t)
        \/ ExportData(t)
        \/ ImportData(t)

SpecImport == InitLoaded /\ [][NextImport]_vars

\* The handlers that chain several storage calls, any of which may fail.
NextFailures ==
    \E t \in SerialSlots :
        \/ CreateNewSection(t)
        \/ ProcessUpload(t)
        \/ DeleteItem(t)
        \/ RestoreItem(t)
        \/ RestoreToCategory(t)
        \/ DeleteSection(t)
        \/ StorageCallFails(t)

SpecFailures == Init /\ [][NextFailures]_vars

\* The first run: the welcome modal or the migration of a legacy file sets
\* the flag; settings, backups and imports follow.
NextWelcome ==
    \E t \in SerialSlots :
        \/ AppInit(t)
        \/ CompleteWelcome(t)
        \/ Migration(t)
        \/ SaveSettings(t)
        \/ ExportData(t)
        \/ ImportBackup(t)

SpecWelcome == InitLoaded /\ [][NextWelcome]_vars

\* The weather widget and the settings as time passes: the page loads, the
\* weather is refreshed, the theme is toggled, the settings are saved.
NextWeather ==
    \/ TimePasses
    \/ ReloadPage
    \/ ToggleTheme
    \/ \E t \in SerialSlots :
           \/ AppInit(t)
           \/ RefreshWeather(t)
           \/ SaveSettings(t)
           \/ DetectLocation(t)

SpecWeather == InitLoaded /\ [][NextWeather]_vars

\* The service worker: installed once, then answering the pages' requests
\* with the network up or down.
NextWorker ==
    \/ SwInstall
    \/ SwClearCache
    \/ \E request \in SwRequests, outcome \in NetworkOutcomes : SwFetch(request, outcome)

SpecWorker == Init /\ [][NextWorker]_vars

\* The card every handler of the interleaved runs is started on: the first
\* of the two uploaded photos
InterleavedItem == Num(1)

\* Handlers on one item started while others are between their storage
\* calls.
NextInterleaved ==
    \E t \in Slots :
        \/ ToggleFavoriteInvoke(t, InterleavedItem)
        \/ ToggleFavoriteSave(t)
        \/ ToggleLaundryInvoke(t, InterleavedItem)
        \/ ToggleLaundrySave(t)
        \/ DeleteItemInvoke(t, InterleavedItem)
        \/ DeleteItemSaveToTrash(t)
        \/ DeleteItemDelete(t)
        \/ EmptyTrash(t)

SpecInterleaved == InitWeekly /\ [][NextInterleaved]_vars

\* The outfit builder of a wardrobe with two items, one handler after
\* another.
NextBuilder ==
    \E t \in SerialSlots :
        \/ AddToBuilder(t)
        \/ RemoveFromBuilder(t)
        \/ ClearBuilder(t)
        \/ SaveBuilderOutfit(t)
        \/ LoadSavedOutfit(t)

SpecBuilder == InitWeekly /\ [][NextBuilder]_vars

\* Calls of Storage.setSetting with the values the application stores.
NextSettings ==
    \E key \in DOMAIN SettingKey : \E value \in StoredValues(key) :
        StorageSetSetting(key, value)

SpecSettings == Init /\ [][NextSettings]_vars

---------------------------------------------------------------------------
(* Properties of the item life cycle.                                      *)

IsCustom(category) == category[1] = "custom"

\* C1: no item id is in the items store and in the trash store at once, in
\* any state, the states between a handler's storage calls included.
C1_NeverInBoth == DOMAIN items \cap DOMAIN trash = {}

\* r and q agree on what identifies an item and on its flags
SameItem(r, q) ==
    /\ q.id = r.id
    /\ q.imageId = r.imageId
    /\ q.favorite = r.favorite
    /\ q.laundry = r.laundry
    /\ q.dateAdded = r.dateAdded

\* C3: App.deleteItem followed by App.restoreItem gives the record back.
\* (a) the step of deleteItem that takes x out of items leaves in trash a
\*     record that agrees with x's on id, imageId, favorite, laundry and
\*     dateAdded and records x's category as originalCategory;
\* (b) a record does not change while it is in trash;
\* (c) restoreItem takes exactly the trash record, the id is not in trash
\*     afterwards, and what it puts into items agrees with the trash record
\*     on those fields, has deleted = false and the recorded category.
C3_DeleteStep(t) ==
    (Running(t, "deleteItem", "saveToTrash") /\ tasks'[t] = Idle) =>
        LET x == tasks[t].itemId
        IN  /\ x \in DOMAIN items /\ x \notin DOMAIN items'
            /\ x \in DOMAIN trash'
            /\ SameItem(items[x], trash'[x])
            /\ trash'[x].deleted = TRUE
            /\ trash'[x].originalCategory = items[x].category

C3_TrashKeeps ==
    \A x \in DOMAIN trash \cap DOMAIN trash' : trash'[x] = trash[x]

C3_RestoreTakes(t) ==
    (IsIdle(t) /\ tasks'[t].op = "restoreItem") =>
        /\ tasks'[t].item # Undefined => tasks'[t].item \in GetAll(trash)
        /\ tasks'[t].item # Undefined => tasks'[t].item.id \notin DOMAIN trash'

C3_RestoreStep(t) ==
    (Running(t, "restoreItem", "restoreFromTrash") /\ tasks[t].item # Undefined
        /\ tasks'[t] = Idle) =>
        LET r == tasks[t].item
        IN  /\ r.id \notin DOMAIN trash'
            /\ r.id \in DOMAIN items'
            /\ SameItem(r, items'[r.id])
            /\ items'[r.id].deleted = FALSE
            /\ items'[r.id].category = r.originalCategory

C3_DeleteRestoreRoundTrip ==
    [][\A t \in Slots : /\ C3_DeleteStep(t)
                        /\ C3_TrashKeeps
                        /\ C3_RestoreTakes(t)
                        /\ C3_RestoreStep(t)]_vars

\* a favorite item filed under tops that restoreItem has brought back
C3_Witness ==
    \E x \in DOMAIN items :
        /\ "deleted" \in DOMAIN items[x] /\ items[x].deleted = FALSE
        /\ "originalCategory" \notin DOMAIN items[x]
        /\ items[x].favorite
        /\ items[x].category = <<"tops">>
        /\ x \notin DOMAIN trash

\* C4: when Storage.emptyTrash has completed, trash is empty, the image of
\* every entry that was in trash is gone, and every image an item of the
\* items store references is still there with the data it had.
C4_AfterEmptyTrash ==
    /\ DOMAIN trash' = {}
    /\ \A k \in DOMAIN trash :
          Truthy(trash[k], "imageId") => trash[k].imageId \notin DOMAIN images'
    /\ \A x \in DOMAIN items' :
          items'[x].imageId \in DOMAIN images =>
             /\ items'[x].imageId \in DOMAIN images'
             /\ images'[items'[x].imageId] = images[items'[x].imageId]

C4_EmptyTrashPurges ==
    [][\A t \in Slots : EmptyTrashCommit(t) => C4_AfterEmptyTrash]_vars

\* trash has just been emptied of an entry while another item stays active
\* with its image
C4_Witness ==
    /\ lastResult = "ok"
    /\ DOMAIN trash = {}
    /\ \E x \in DOMAIN items : items[x].imageId \in DOMAIN images
    /\ Cardinality(DOMAIN images) < clock - 1
    /\ \A t \in Slots : IsIdle(t)

\* every trash entry still has its image, and every image still has a record
\* (or a handler in flight) that references it
C5_NoHalfPurge ==
    /\ \A k \in DOMAIN trash : trash[k].imageId \in DOMAIN images
    /\ \A i \in DOMAIN images :
          \/ \E x \in DOMAIN items : items[x].imageId = i
          \/ \E k \in DOMAIN trash : trash[k].imageId = i
          \/ \E t \in Slots : "imageId" \in DOMAIN tasks[t] /\ tasks[t].imageId = i
          \/ \E t \in Slots : "item" \in DOMAIN tasks[t] /\ tasks[t].item # Undefined
                                /\ tasks[t].item.imageId = i

\* C5: Storage.emptyTrash is all or nothing: when it fails it reports the
\* error and leaves trash and images as they were, and in no state are the
\* images of trash entries gone while the entries remain, or the reverse.
C5_EmptyTrashAllOrNothing ==
    [][/\ \A t \in Slots :
             EmptyTrashAbort(t) =>
                (trash' = trash /\ images' = images /\ lastResult' = "error")
       /\ C5_NoHalfPurge']_vars

\* emptyTrash has failed on a trash that holds two entries with images
C5_Witness ==
    /\ lastResult = "error"
    /\ Cardinality(WithImage(trash)) >= 2

---------------------------------------------------------------------------
(* Properties of custom sections.                                          *)

\* C7: App.deleteSection(s) removes the section record only after every
\* item filed under custom-s when it began is in trash and out of items, and
\* no item filed under custom-s is in items when the record goes.
C7_SectionStep(t) ==
    \A s \in DOMAIN customSections :
        s \notin DOMAIN customSections' =>
            /\ tasks[t].op = "deleteSection" /\ tasks[t].sectionId = s
            /\ \A n \in 1..Len(tasks[t].sectionItems) :
                  /\ tasks[t].sectionItems[n].id \notin DOMAIN items'
                  /\ tasks[t].sectionItems[n].id \in DOMAIN trash'
            /\ \A x \in DOMAIN items' : items'[x].category # CustomCategory(s)

C7_SectionRemovedLast == [][\A t \in SerialSlots : C7_SectionStep(t)]_vars

\* a section is gone and two items that were filed under it are in trash
C7_Witness ==
    \E s \in 1..MaxSections :
        /\ s \notin DOMAIN customSections
        /\ keygen.customSections > s
        /\ Cardinality({k \in DOMAIN trash : trash[k].originalCategory = CustomCategory(s)
                                             /\ "deletedDate" \notin DOMAIN trash[k]}) >= 2

\* C8: no item of the items store is filed under custom-<id> without a
\* CustomSection record <id>.
C8_NoDanglingCategory ==
    \A x \in DOMAIN items :
        IsCustom(items[x].category) => items[x].category[2] \in DOMAIN customSections

---------------------------------------------------------------------------
(* Properties of images and their owners.                                  *)

NoneInFlight == \A t \in Slots : IsIdle(t)

\* C2: every active item whose imageId is not null has an image record
\* under that id, in every reachable state.
C2_ActiveItemsHaveImages ==
    \A k \in WithImage(items) : Has(images, items[k].imageId)

\* the image ids that items, trash entries and shopping entries refer to
ReferencedImages ==
    {items[k].imageId : k \in WithImage(items)}
        \cup {trash[k].imageId : k \in WithImage(trash)}
        \cup {shoppingList[k].imageId : k \in WithImage(shoppingList)}

\* C6: whenever no handler is in flight, every image record is referred to
\* by an active item, a trash entry or a shopping entry.
C6_NoImageLeaked == NoneInFlight => DOMAIN images \subseteq ReferencedImages

---------------------------------------------------------------------------
(* Properties of the weekly planner.                                       *)

NoDuplicates(seq) == \A i, j \in DOMAIN seq : i # j => seq[i] # seq[j]

\* C9: no day of the weekly plan lists the same item id twice, whatever
\* adds and removes have run, adds that overlap on one day included.
C9_NoDuplicateItems == \A d \in DOMAIN weeklyPlan : NoDuplicates(weeklyPlan[d].items)

\* an add of an id to a day is between its read and its write, and the day
\* has received that id from another add in the meantime
C9_Witness ==
    \E t \in Slots :
        /\ Running(t, "addToWeeklyOutfit", "getWeeklyPlan")
        /\ tasks[t].dayPlan # Undefined
        /\ ~Includes(tasks[t].dayPlan.items, tasks[t].itemId)
        /\ Includes(weeklyPlan[tasks[t].dayPlan.day].items, tasks[t].itemId)
        /\ Len(weeklyPlan[tasks[t].dayPlan.day].items) = 2

---------------------------------------------------------------------------
(* Properties of backups.                                                  *)

\* C10: with no handler in flight, the store's export imported on an empty
\* device gives the same items, images, weekly plan, saved outfits, custom
\* sections and shopping list, and the same four settings.
C10_ExportImportRoundTrip ==
    NoneInFlight =>
        LET copy == ImportedOnEmpty(ExportAllData)
        IN  /\ copy.items = items
            /\ copy.images = images
            /\ copy.weeklyPlan = weeklyPlan
            /\ copy.savedOutfits = savedOutfits
            /\ copy.customSections = customSections
            /\ copy.shoppingList = shoppingList
            /\ \A key \in ExportedSettings :
                   GetSetting(copy.localStorage, key, Null) = GetSetting(localStorage, key, Null)

\* C11: the exported document is self-contained: for every item and every
\* shopping entry in it whose imageId is not null and whose image is in the
\* store, the document's images hold that id with the stored data.
C11_ExportSelfContained ==
    LET data == ExportAllData
        carriers == {data.items[k] : k \in WithImage(data.items)}
                        \cup {data.shoppingList[k] : k \in WithImage(data.shoppingList)}
    IN  \A record \in carriers :
            Has(images, record.imageId) =>
                /\ Has(data.images, record.imageId)
                /\ data.images[record.imageId].data = images[record.imageId].data

---------------------------------------------------------------------------
(* Properties of import.                                                   *)

\* the file holds no document, or one whose version is not 1
C12_Rejected(file) ==
    \/ file[1] # "json"
    \/ file[2] = Null
    \/ file[2].version # 1

\* C12: an import of a file whose document is absent or not of version 1
\* ends in an error with every store, every key generator and every
\* setting as it was.
C12_InvalidImportChangesNothing ==
    [][\A t \in Slots : \A file \in PickableFiles :
          (ImportDataInvoke(t, file) /\ C12_Rejected(file)) =>
              /\ stores' = stores
              /\ localStorage' = localStorage
              /\ keygen' = keygen
              /\ tasks'[t] = Idle
              /\ lastResult' = "error"]_vars

\* a refused import has just ended, in a wardrobe with items and trash
C12_Witness ==
    /\ lastResult = "error"
    /\ NoneInFlight
    /\ DOMAIN items # {}
    /\ DOMAIN trash # {}

StoreOf(name) ==
    CASE name = "items" -> items
      [] name = "images" -> images
      [] name = "weeklyPlan" -> weeklyPlan
      [] name = "savedOutfits" -> savedOutfits
      [] name = "customSections" -> customSections
      [] name = "shoppingList" -> shoppingList
      [] name = "trash" -> trash

\* the names of a sequence of names
Names(seq) == {seq[i] : i \in DOMAIN seq}

ImportInFlight(t) == ~IsIdle(t) /\ tasks[t].op = "importData"

\* every item in the store whose image is in the document has its image
C13_InsertedItemsHaveImages(data) ==
    \A k \in WithImage(items) :
        Has(data.images, items[k].imageId) => Has(images, items[k].imageId)

\* while stores are being cleared: the stores cleared so far are empty
C13_Clearing(t) ==
    \A name \in Names(ClearOrder) \ Names(tasks[t].left) : DOMAIN StoreOf(name) = {}

\* while records are being saved: trash is empty, the lists before the
\* current one in the order images, items, weeklyPlan, savedOutfits,
\* customSections, shoppingList are in their stores, of the current one the
\* records before the next, and the stores of the lists after it are empty
C13_Saving(t) ==
    LET data == tasks[t].data
        order == <<"images", "items", "weeklyPlan", "savedOutfits",
                   "customSections", "shoppingList">>
        lists == IF tasks[t].pc = "save" THEN tasks[t].lists ELSE <<>>
        before == {order[i] : i \in 1..(Len(order) - Len(lists))}
        after == {lists[i] : i \in 2..Len(lists)}
    IN  /\ DOMAIN trash = {}
        /\ \A name \in before : StoreOf(name) = PutAll(EmptyStore, data[name])
        /\ \A name \in after : DOMAIN StoreOf(name) = {}
        /\ lists # <<>> =>
              /\ Names(lists) \cup before = Names(order)
              /\ DOMAIN StoreOf(Head(lists)) =
                    DOMAIN data[Head(lists)] \ Names(tasks[t].keys)
        /\ C13_InsertedItemsHaveImages(data)

\* C13: an import clears every store before it saves a record and saves the
\* lists in the order images, items, weekly plan, saved outfits, custom
\* sections, shopping list; so at every point of the import each item
\* already saved whose image is in the document has its image in the store.
C13_ImportInOrder ==
    \A t \in Slots :
        ImportInFlight(t) =>
            IF tasks[t].pc = "clearAllData" THEN C13_Clearing(t) ELSE C13_Saving(t)

\* an import has saved one item with its image and has another to save
C13_Witness ==
    \E t \in Slots :
        /\ ImportInFlight(t)
        /\ tasks[t].pc = "save"
        /\ Head(tasks[t].lists) = "items"
        /\ WithImage(items) # {}
        /\ Len(tasks[t].keys) < Cardinality(DOMAIN tasks[t].data.items)

---------------------------------------------------------------------------
(* Properties of failures.                                                 *)

\* C14: when a storage call of a handler that chains several fails, the
\* items, trash, images and custom sections are what they were when the
\* handler started.
C14_FailureLeavesNoPartialMutation ==
    [][\A t \in Slots :
          StorageCallFails(t) =>
              /\ items' = tasks[t].before.items
              /\ trash' = tasks[t].before.trash
              /\ images' = tasks[t].before.images
              /\ customSections' = tasks[t].before.customSections]_vars


---------------------------------------------------------------------------
(* Properties of the settings.                                             *)

\* the key was never set, or the text stored under it is no JSON
Undecodable(ls, key) == ~Has(ls, SettingKey[key]) \/ ls[SettingKey[key]][1] = "raw"

\* C15: getSetting(key, default) returns the default when the key was never
\* set and when the stored text cannot be decoded as JSON; in particular
\* getSetting('tempUnit', 'fahrenheit') on a store without the key returns
\* 'fahrenheit'.
C15_GetSettingFallsBackToDefault ==
    \A key \in DOMAIN SettingKey :
        \A defaultValue \in {Null, Str("fahrenheit")} :
            Undecodable(localStorage, key) =>
                GetSetting(localStorage, key, defaultValue) = defaultValue

\* the part of C15 about keys never set
C15_UnsetKeyGivesDefault ==
    \A key \in DOMAIN SettingKey :
        \A defaultValue \in {Null, Str("fahrenheit")} :
            ~Has(localStorage, SettingKey[key]) =>
                GetSetting(localStorage, key, defaultValue) = defaultValue


---------------------------------------------------------------------------
(* Properties of the first run.                                            *)

\* the step completes the welcome modal or the legacy migration
SetsMigrated == \E t \in Slots : CompleteWelcome(t) \/ MigrationDone(t)

\* C16: isFirstRun() is true while the flag is not set and false once
\* setMigrated() ran in the welcome modal or at the end of the legacy
\* migration, which also records a timestamp; no later step, importAllData
\* included, makes it true again.
C16_FirstRunOnlyOnce ==
    [][/\ ~Has(localStorage, "wardrobe_migrated") => IsFirstRun(localStorage)
       /\ SetsMigrated => /\ ~IsFirstRun(localStorage')
                          /\ Has(localStorage', "wardrobe_migratedDate")
                          /\ localStorage'["wardrobe_migratedDate"] = RawText(IsoNow)
       /\ ~IsFirstRun(localStorage) => ~IsFirstRun(localStorage')]_vars

\* the welcome modal was completed, a backup was imported afterwards and the
\* page loads again
C16_Witness ==
    /\ ~IsFirstRun(localStorage)
    /\ Has(localStorage, "wardrobe_userName")
    /\ lastResult = "ok"
    /\ \E t \in Slots : tasks[t] = PageLoaded


---------------------------------------------------------------------------
(* Properties of the weather widget.                                       *)

\* C17: a lookup with a cached forecast younger than CACHE_DURATION makes
\* no request and returns the cached payload; any other lookup makes the
\* request, and when it succeeds the new payload is cached with the current
\* time.
C17_CacheUsedWhileFresh ==
    [][\A t \in Slots :
          RenderWeather(t) =>
              LET cached == GetSetting(localStorage, "weatherCache", Null)
              IN  IF JsTruthy(cached) /\ clock - cached[2].timestamp < CACHE_DURATION
                  THEN /\ app'.weatherLog = "Using cached weather data"
                       /\ app'.currentWeather = cached[2].data
                       /\ localStorage' = localStorage
                  ELSE /\ app'.weatherLog # "Using cached weather data"
                       /\ app'.weatherLog = "fetched" =>
                              GetSetting(localStorage', "weatherCache", Null) =
                                  Obj([data |-> app'.currentWeather, timestamp |-> clock])]_vars

\* the widget shows the cached forecast without a request
C17_Witness ==
    /\ app.weatherLog = "Using cached weather data"
    /\ JsTruthy(GetSetting(localStorage, "weatherCache", Null))
    /\ app.currentWeather = GetSetting(localStorage, "weatherCache", Null)[2].data

\* C18: a lookup whose request fails returns the payload fetched last
\* whenever a request succeeded before, whatever fetchWeather,
\* App.refreshWeather and App.saveSettings ran in between: the widget is
\* without weather only while no payload was ever fetched.
C18_FailureFallsBackToLastPayload ==
    app.weatherLog = "Weather fetch error" => app.currentWeather = Null


---------------------------------------------------------------------------
(* Properties of outfits.                                                  *)

\* the ids of an outfit that are ids of active items
ResolvingIds(itemIds) == SelectSeq(itemIds, LAMBDA itemId : Has(items, itemId))

\* the step belongs to a handler that deletes or restores items
DeletesOrRestores ==
    \E t \in Slots :
        DeleteItem(t) \/ RestoreItem(t) \/ RestoreToCategory(t) \/ DeleteSection(t) \/ EmptyTrash(t)

\* the part of C19 about the handlers: they leave the plans and the saved
\* outfits as they are
C19_PlansKept == [][DeletesOrRestores => UNCHANGED <<weeklyPlan, savedOutfits>>]_vars

\* C19: deleteItem, restoreItem, restoreToCategory, deleteSection and
\* emptyTrash leave the items of every day plan and saved outfit unchanged,
\* and a rendered day plan or builder canvas shows exactly the referenced ids
\* that are ids of active items, passing over the others.
C19_PlansKeptAndRendered ==
    /\ C19_PlansKept
    /\ [](/\ \A day \in DOMAIN weeklyPlan :
                RenderWeeklyDayItems(day) = ResolvingIds(weeklyPlan[day].items)
          /\ RenderBuilderCanvas = ResolvingIds(app.builderItems))


\* C20: getAllItems() returns active and trashed items alike: when
\* App.deleteItem(x) has completed, the record of x, with deleted = true, is
\* among the records getAllItems() returns.
C20_DeletedItemStillListed ==
    [][\A t \in Slots :
          DeleteItemDelete(t) =>
              \E record \in GetAll(items') :
                  /\ record.id = tasks[t].item.id
                  /\ "deleted" \in DOMAIN record
                  /\ record.deleted]_vars


---------------------------------------------------------------------------
(* Properties of restoreFromTrash.                                         *)

\* the handler in slot t calls Storage.restoreFromTrash in this step
C21_Calls(t) == IsIdle(t) /\ ~IsIdle(t)' /\ tasks'[t].pc = "restoreFromTrash"

---------------------------------------------------------------------------
(* Properties of trash entries.                                            *)

\* C22: every record in trash has deleted = true and carries deletedDate and
\* originalCategory, the category it had when it was deleted, whether
\* App.deleteItem or the cascade of App.deleteSection put it there.
C22_TrashEntriesMarked ==
    \A k \in DOMAIN trash :
        /\ "deleted" \in DOMAIN trash[k] /\ trash[k].deleted = TRUE
        /\ "originalCategory" \in DOMAIN trash[k]
        /\ trash[k].originalCategory = trash[k].category
        /\ "deletedDate" \in DOMAIN trash[k]


---------------------------------------------------------------------------
(* Properties of the service worker.                                       *)

\* what C23 says of the answer to one request handled with that outcome of
\* the network
C23_Answer(request, outcome) ==
    LET key == CacheKey(request)
        cached == Has(worker.cache, key)
        answer == worker'.respondedWith
        api == request.host \in ApiHosts
    IN  /\ request.method # "GET" => answer.via = "not intercepted"
        /\ (request.method = "GET" /\ ~api /\ cached) =>
               (answer.via = "cache" /\ answer.key = key /\ ~answer.fetched)
        /\ (request.method = "GET" /\ api /\ outcome # "failed") => answer.via = "network"
        /\ (request.method = "GET" /\ api /\ outcome = "failed" /\ cached) =>
               (answer.via = "cache" /\ answer.key = key)
        /\ (request.method = "GET" /\ ~api /\ ~cached /\ outcome = "failed"
                /\ request.mode = "navigate") =>
               (answer.via = "cache" /\ answer.key = <<Origin, "/index.html">>)

\* C23: the service worker answers a GET for a non-API URL from the cache,
\* without the network, when the cache has it; it answers a GET to a weather
\* or geocoding host from the network when the fetch succeeds and from the
\* cache only when it fails; it leaves other methods alone; and a navigation
\* with neither cache entry nor network gets the cached /index.html.
C23_OfflineSupport ==
    [][\A request \in SwRequests, outcome \in NetworkOutcomes :
          SwFetch(request, outcome) => C23_Answer(request, outcome)]_vars

\* the same once the install has cached the assets and while they stay cached
C23_OfflineSupportWithAssets ==
    [][\A request \in SwRequests, outcome \in NetworkOutcomes :
          (SwFetch(request, outcome) /\ Has(worker.cache, <<Origin, "/index.html">>)) =>
              C23_Answer(request, outcome)]_vars


---------------------------------------------------------------------------
(* Properties of the migration.                                            *)

\* every record of the store is still there, unchanged, after the step
C24_Kept(store, after) == \A k \in DOMAIN store : Has(after, k) /\ after[k] = store[k]

\* C24: a legacy migration run on a store that holds data adds to it and
\* replaces nothing: every item, image, weekly day plan and shopping entry
\* present before is present and unchanged after each of its steps.
C24_MigrationOnlyAdds ==
    [][(\E t \in Slots : Migration(t)) =>
          /\ C24_Kept(items, items')
          /\ C24_Kept(images, images')
          /\ C24_Kept(weeklyPlan, weeklyPlan')
          /\ C24_Kept(shoppingList, shoppingList')]_vars

---------------------------------------------------------------------------
(* Properties of handlers that overlap on one record.                      *)

\* C25: once deleteItem of an item and the toggles started on the same item
\* have all completed, the item is not in items and trash at once, and
\* every item in items still has its image, also after emptyTrash.
C25_DeletedItemStaysInTrashOnly ==
    NoneInFlight =>
        /\ DOMAIN items \cap DOMAIN trash = {}
        /\ \A k \in DOMAIN items : Has(images, items[k].imageId)

\* the write of a toggle keeps the other flag of the record as it is stored
C26_FlagsKept ==
    [][\A t \in Slots :
          /\ (ToggleFavoriteSave(t) /\ tasks[t].item # Undefined
                  /\ Has(items, tasks[t].item.id)) =>
                 items'[tasks[t].item.id].laundry = items[tasks[t].item.id].laundry
          /\ (ToggleLaundrySave(t) /\ tasks[t].item # Undefined
                  /\ Has(items, tasks[t].item.id)) =>
                 items'[tasks[t].item.id].favorite = items[tasks[t].item.id].favorite]_vars

\* the write of an add to a day keeps every id the stored day has
C26_DayItemsKept ==
    [][\A t \in Slots :
          (AddToWeeklyOutfitSave(t) /\ tasks[t].dayPlan # Undefined) =>
              \A i \in DOMAIN weeklyPlan[tasks[t].dayPlan.day].items :
                  Includes(weeklyPlan'[tasks[t].dayPlan.day].items,
                           weeklyPlan[tasks[t].dayPlan.day].items[i])]_vars

\* C26: no update is lost between handlers that read a record and write it
\* back: a toggle of one flag leaves the other flag as the last writer stored
\* it, and an add to a weekly day leaves every id already stored for the day.
C26_NoLostUpdate == C26_FlagsKept /\ C26_DayItemsKept

---------------------------------------------------------------------------
(* Properties of restored records.                                         *)

\* C27: no item in the active collection carries trash metadata: every
\* record in items, also one written by App.restoreItem or by
\* DragDrop.restoreToCategory, has no deleted flag other than false and
\* neither a deletedDate nor an originalCategory.
C27_ActiveItemsCarryNoTrashMarks ==
    \A k \in DOMAIN items :
        /\ ("deleted" \in DOMAIN items[k] => items[k].deleted = FALSE)
        /\ "deletedDate" \notin DOMAIN items[k]
        /\ "originalCategory" \notin DOMAIN items[k]

\* the same for the records App.restoreItem writes
C27_RestoreItemClearsMarks ==
    [][\A t \in Slots :
          (RestoreItemSave(t) /\ tasks[t].item # Undefined) =>
              LET written == items'[tasks[t].item.id]
              IN  /\ written.deleted = FALSE
                  /\ "deletedDate" \notin DOMAIN written
                  /\ "originalCategory" \notin DOMAIN written]_vars

---------------------------------------------------------------------------
(* Properties of the forecast returned.                                    *)

\* the forecast is one for the unit and the coordinates the settings hold
C28_ForCurrentSettings(data, ls) ==
    /\ data[3] = GetSetting(ls, "tempUnit", Str("fahrenheit"))
    /\ data[4] = <<GetLocation(ls).lat, GetLocation(ls).lon>>

\* C28: the forecast fetchWeather returns to UI.renderWeather is one for
\* the location and the temperature unit the settings hold at that time,
\* whether it comes from the network or from the cache.
C28_ForecastIsCurrent ==
    [][\A t \in Slots :
          (RenderWeather(t) /\ app'.weatherLog # "Weather fetch error") =>
              C28_ForCurrentSettings(app'.currentWeather, localStorage')]_vars

\* the same for the unit alone
C28_ForecastUnitIsCurrent ==
    [][\A t \in Slots :
          (RenderWeather(t) /\ app'.weatherLog # "Weather fetch error") =>
              app'.currentWeather[3] =
                  GetSetting(localStorage', "tempUnit", Str("fahrenheit"))]_vars

---------------------------------------------------------------------------
(* Properties of the outfit builder.                                       *)

\* what a step of saveBuilderOutfit in slot t does to the saved outfits and
\* to the builder
C29_SaveStep(t) ==
    /\ (SaveBuilderOutfitInvoke(t) /\ Len(app.builderItems) = 0) =>
           (savedOutfits' = savedOutfits /\ tasks'[t] = Idle)
    /\ (SaveBuilderOutfitInvoke(t) /\ Len(app.builderItems) # 0) =>
           (savedOutfits' = savedOutfits /\ tasks'[t].outfit.items = app.builderItems)
    /\ SaveBuilderOutfitSave(t) =>
           /\ \A k \in DOMAIN savedOutfits :
                  Has(savedOutfits', k) /\ savedOutfits'[k] = savedOutfits[k]
           /\ \E k \in DOMAIN savedOutfits' \ DOMAIN savedOutfits :
                  /\ DOMAIN savedOutfits' = DOMAIN savedOutfits \cup {k}
                  /\ savedOutfits'[k].items = tasks[t].outfit.items
           /\ app'.builderItems = <<>>

\* C29: App.builderItems never holds an id twice, whatever addToBuilder,
\* removeFromBuilder, clearBuilder, saveBuilderOutfit and loadSavedOutfit
\* ran; saveBuilderOutfit stores nothing for an empty builder, and otherwise
\* adds one outfit whose items are the builder's when it was called, empties
\* the builder and leaves the outfits saved before as they were.
C29_BuilderHoldsEachIdOnce ==
    /\ [](NoDuplicates(app.builderItems))
    /\ [][\A t \in Slots : C29_SaveStep(t)]_vars

\* two outfits with the same two items are saved, the second from a builder
\* filled again, and the builder is empty
C29_Witness ==
    /\ NoneInFlight
    /\ DOMAIN savedOutfits = {1, 2}
    /\ savedOutfits[1].items = savedOutfits[2].items
    /\ Len(savedOutfits[1].items) = 2
    /\ app.builderItems = <<>>

---------------------------------------------------------------------------
(* Properties of the settings.                                             *)

\* the defaults getSetting is called with
C30_Defaults == {Null, Str("fahrenheit"), Str("Emily"), Str("light")}

\* getSetting(key, d) after setSetting(key, value) returns value
C30_ReadsBack(key, value) ==
    \A d \in C30_Defaults : GetSetting(localStorage', key, d) = value

\* C30: getSetting(key, d) after setSetting(key, v) returns v, a value of
\* the same type, for every value the application stores under the key,
\* and returns the default d after setSetting(key, null).
C30_SetThenGetRoundTrips ==
    [][\A key \in DOMAIN SettingKey : \A value \in StoredValues(key) :
          StorageSetSetting(key, value) =>
              \A d \in C30_Defaults :
                  GetSetting(localStorage', key, d) = (IF value = Null THEN d ELSE value)]_vars

\* the part of C30 about objects and about strings that spell no JSON literal
C30_PlainValuesRoundTrip ==
    [][\A key \in DOMAIN SettingKey : \A value \in StoredValues(key) :
          (StorageSetSetting(key, value) /\ value # Null /\ value # Str("true")) =>
              C30_ReadsBack(key, value)]_vars

\* after setSetting(key, null) getSetting returns null, whatever the default
C30_ClearedReadsNull ==
    [][\A key \in DOMAIN SettingKey :
          StorageSetSetting(key, Null) => C30_ReadsBack(key, Null)]_vars

====
